---- MODULE Spec2Model ----
(***************************************************************************)
(* Verification model of the fraud-detection core: the ensemble scoring    *)
(* pipeline (src/src/detection) and the identity-cluster detector          *)
(* (src/src/graph).                                                        *)
(*                                                                         *)
(* Numbers.  The Python code computes with floats; the model computes the  *)
(* same expressions exactly, in fixed point: a score x is the integer      *)
(* x * One.  One = 2^6 * 3^3 * 5^8 is the least unit in which every value  *)
(* the pipeline can produce from the modelled inputs is an integer (the    *)
(* element score needs 1/150000, the weights 1/100, the renormalisation    *)
(* by 0.9 a further 1/9), so no rounding takes place.                      *)
(***************************************************************************)
EXTENDS Integers, Sequences, FiniteSets, TLC

VARIABLES
    now,        \* the clock (datetime.now()), in days
    redis,      \* VelocityAnalyzer._redis: "none" (no client), "up", "down" (calls raise)
    zIdent,     \* velocity store: element type -> sorted set identity -> timestamp
    zSsn,       \* velocity store: element type -> sorted set ssn -> timestamp
    bureau,     \* bureau_connector of both credit detectors: "none", "up", "down"
    auGraph,    \* AuthorizedUserDetector._graph is set
    dirty,      \* a collaborator changed state since the last analyze call
    result,     \* outcome of the last EnsembleDetector.analyze call
    gstore,     \* identity graph store: the relationships <<identity, type, hash>>
    gdriver,    \* the graph driver: "none", "up", "down" (queries raise)
    clusters,   \* outcome of the last ClusterDetector.detect_clusters call
    lastMinSize,  \* min_size argument of that call
    nodeProps,    \* graph store: identity -> properties of its Identity node
    writeBack,    \* run_cluster_detection: the assignments its loop has yet to write
    committed,    \* the stored cluster_id of each identity when the last run completed
    cached_graph, \* GraphFeatureExtractor._cached_graph
    observed,     \* outcome of the last read (extract_features, get_cluster_members)
    replay,       \* two velocity stores of one element, each with the uses recorded in it
    call,         \* the last call of a detector function: its name, arguments and value
    connections,  \* AlertManager._connections: the tracked websockets
    sockets,      \* each websocket ever opened: "open", or "closed" (sends raise)
    sending,      \* AlertManager.broadcast: the position and locals of the call in progress
    cases,        \* CaseManager._cases: case id -> status and assignee
    response      \* the last request of the investigation routes and what it returned

vars == <<now, redis, zIdent, zSsn, bureau, auGraph, dirty, result,
          gstore, gdriver, clusters, lastMinSize,
          nodeProps, writeBack, committed, cached_graph, observed, replay, call,
          connections, sockets, sending, cases, response>>

scoringVars == <<now, redis, zIdent, zSsn, bureau, auGraph, dirty, result>>
alertVars == <<connections, sockets, sending>>
caseVars == <<cases, response>>
apiVars == <<alertVars, caseVars>>
ensembleVars == <<scoringVars, replay, call, apiVars>>
graphVars == <<nodeProps, writeBack, committed, cached_graph, observed>>
graphStoreVars == <<gstore, gdriver, clusters, lastMinSize, graphVars>>
clusterVars == <<graphStoreVars, replay, call, apiVars>>

----------------------------------------------------------------------------
(* Exact fixed-point arithmetic                                            *)

One == (2^6) * (3^3) * (5^8)

\* x * (p/q), computed without leaving 32 bits
Mul(x, p, q) == (x \div q) * p + ((x % q) * p) \div q

\* the decimal literal p/q
Dec(p, q) == Mul(One, p, q)

Min(a, b) == IF a <= b THEN a ELSE b
Max(a, b) == IF a >= b THEN a ELSE b

\* list membership and the list(set(xs)) idiom
InList(x, xs) == \E k \in 1..Len(xs) : xs[k] = x
ToSet(xs) == {xs[k] : k \in 1..Len(xs)}

RECURSIVE SetToList(_)
SetToList(S) ==
    IF S = {} THEN <<>>
    ELSE LET x == CHOOSE y \in S : TRUE IN <<x>> \o SetToList(S \ {x})

\* a list with the elements of xs satisfying Keep(x)... the comprehension
\* [x for x in xs if ...] is written with SelectSeq where it is needed.
RECURSIVE SumSeq(_)
SumSeq(xs) == IF xs = <<>> THEN 0 ELSE Head(xs) + SumSeq(Tail(xs))

None == "None"

\* F applied to the value v: binds a local name to a value computed once
With(v, F(_)) == F(v)

----------------------------------------------------------------------------
(* SyntheticScorer (src/src/detection/synthetic_scorer.py)                 *)
(* A signals dict of flags is modelled as the set of keys whose value is   *)
(* truthy; numeric dicts are records holding .get's default where the key  *)
(* is absent.                                                              *)

ssn_signals_weight == Dec(25, 100)
graph_features_weight == Dec(30, 100)
velocity_signals_weight == Dec(20, 100)
credit_behavior_weight == Dec(15, 100)
device_binding_weight == Dec(10, 100)
high_risk_threshold == Dec(80, 100)
medium_risk_threshold == Dec(50, 100)
review_threshold == Dec(30, 100)

\* x * w for two fixed-point values (w a weight with at most two decimals)
Times(x, w) == Mul(x, w \div (One \div 100), 100)

\* variant: the sum of the SSN contributions, not capped
score_ssn_signals_uncapped(signals) ==
      (IF "ssn_dob_mismatch" \in signals THEN Dec(6, 10) ELSE 0)
    + (IF "death_master_match" \in signals THEN Dec(8, 10) ELSE 0)
    + (IF "invalid_ssn" \in signals THEN Dec(5, 10) ELSE 0)
    + (IF "itin_as_ssn" \in signals THEN Dec(4, 10) ELSE 0)
    + (IF "multiple_ssns" \in signals THEN Dec(5, 10) ELSE 0)

score_ssn_signals(signals) ==
    Min(One,
        (IF "ssn_dob_mismatch" \in signals THEN Dec(6, 10) ELSE 0)
      + (IF "death_master_match" \in signals THEN Dec(8, 10) ELSE 0)
      + (IF "invalid_ssn" \in signals THEN Dec(5, 10) ELSE 0)
      + (IF "itin_as_ssn" \in signals THEN Dec(4, 10) ELSE 0)
      + (IF "multiple_ssns" \in signals THEN Dec(5, 10) ELSE 0))

score_graph_features(features) ==
    Min(One,
        (IF features.shared_ssn_count > 0
            THEN Min(Dec(6, 10), features.shared_ssn_count * Dec(3, 10)) ELSE 0)
      + (IF features.cluster_density > Dec(5, 10) THEN Dec(2, 10) ELSE 0)
      + (IF features.cluster_size > 5
            THEN Min(Dec(3, 10), (features.cluster_size - 5) * Dec(5, 100)) ELSE 0)
      + (IF features.neighbor_avg_synthetic_score > Dec(5, 10) THEN Dec(2, 10) ELSE 0))

score_velocity(signals) ==
    Min(One,
        Mul(signals.address_velocity_score, 3, 10)
      + Mul(signals.phone_velocity_score, 4, 10)
      + Mul(signals.email_velocity_score, 3, 10))

score_credit_behavior(signals) ==
    Min(One,
        (IF signals.is_thin_file THEN Dec(2, 10) ELSE 0)
      + (IF signals.file_age_mismatch THEN Dec(4, 10) ELSE 0)
      + (IF signals.rapid_credit_building THEN Dec(3, 10) ELSE 0)
      + (IF signals.au_abuse_pattern THEN Dec(5, 10) ELSE 0))

score_device(signals) ==
    Min(One,
        (IF signals.weak_binding THEN Dec(3, 10) ELSE 0)
      + (IF signals.shared_device_count > 3 THEN Dec(4, 10) ELSE 0)
      + (IF signals.known_fraud_device THEN Dec(8, 10) ELSE 0)
      + (IF signals.emulator_detected THEN Dec(5, 10) ELSE 0))

get_triggered_signals(ssn_signals, graph_features, velocity_signals, credit_behavior, device_signals) ==
       (IF "ssn_dob_mismatch" \in ssn_signals THEN <<"SSN_DOB_MISMATCH">> ELSE <<>>)
    \o (IF "death_master_match" \in ssn_signals THEN <<"DEATH_MASTER_MATCH">> ELSE <<>>)
    \o (IF "multiple_ssns" \in ssn_signals THEN <<"MULTIPLE_SSNS">> ELSE <<>>)
    \o (IF graph_features.shared_ssn_count > 0 THEN <<"SHARED_SSN">> ELSE <<>>)
    \o (IF graph_features.cluster_size > 5 THEN <<"LARGE_CLUSTER">> ELSE <<>>)
    \o (IF velocity_signals.address_velocity_score > Dec(5, 10)
           THEN <<"HIGH_ADDRESS_VELOCITY">> ELSE <<>>)
    \o (IF velocity_signals.phone_velocity_score > Dec(5, 10)
           THEN <<"HIGH_PHONE_VELOCITY">> ELSE <<>>)
    \o (IF credit_behavior.is_thin_file THEN <<"THIN_FILE">> ELSE <<>>)
    \o (IF credit_behavior.au_abuse_pattern THEN <<"AU_ABUSE">> ELSE <<>>)
    \o (IF device_signals.known_fraud_device THEN <<"FRAUD_DEVICE">> ELSE <<>>)

\* the risk level of score under the thresholds of the settings weights
risk_level_under(final_score, weights) ==
    IF final_score >= weights.high_risk_threshold
        THEN (IF final_score >= Dec(9, 10) THEN "critical" ELSE "high")
    ELSE IF final_score >= weights.medium_risk_threshold THEN "medium"
    ELSE IF final_score >= weights.review_threshold THEN "low"
    ELSE "minimal"

\* the thresholds of ScoringSettings as they are by default
DefaultThresholds ==
    [high_risk_threshold |-> high_risk_threshold,
     medium_risk_threshold |-> medium_risk_threshold,
     review_threshold |-> review_threshold]

synthetic_risk_level(final_score) == risk_level_under(final_score, DefaultThresholds)

SyntheticScorer_score(ssn_signals, graph_features, velocity_signals, credit_behavior, device_signals) ==
    LET ssn_score == score_ssn_signals(ssn_signals)
        graph_score == score_graph_features(graph_features)
        velocity_score == score_velocity(velocity_signals)
        credit_score == score_credit_behavior(credit_behavior)
        device_score == score_device(device_signals)
        final_score == Times(ssn_score, ssn_signals_weight)
                     + Times(graph_score, graph_features_weight)
                     + Times(velocity_score, velocity_signals_weight)
                     + Times(credit_score, credit_behavior_weight)
                     + Times(device_score, device_binding_weight)
    IN  [score |-> final_score,
         risk_level |-> synthetic_risk_level(final_score),
         component_scores |-> [ssn |-> ssn_score, graph |-> graph_score,
                               velocity |-> velocity_score,
                               credit |-> credit_score, device |-> device_score],
         triggered_signals |-> get_triggered_signals(
             ssn_signals, graph_features, velocity_signals,
             credit_behavior, device_signals)]

----------------------------------------------------------------------------
(* VelocityAnalyzer (src/src/detection/velocity_analyzer.py)               *)
(* The velocity store holds, per element key <<type, hash>>, two Redis     *)
(* sorted sets member -> timestamp (a function whose domain is the members *)
(* present).  Timestamps and the clock are in days.                        *)

WINDOW_30D == 30
WINDOW_90D == 90
WINDOW_180D == 180

address_max_identities_6mo == 5
phone_max_identities_6mo == 3
email_max_identities_6mo == 2

\* ZCOUNT key lo +inf
zcount(z, lo) == Cardinality({m \in DOMAIN z : z[m] >= lo})

\* the sorted set stored under key (a missing key is an empty set)
zset(store, key) == IF key \in DOMAIN store THEN store[key] ELSE <<>>

\* ZADD key {member: ts}
zadd(z, member, ts) ==
    [m \in (DOMAIN z) \cup {member} |-> IF m = member THEN ts ELSE z[m]]

empty_element_velocity ==
    [unique_identities_30d |-> 0, unique_identities_90d |-> 0,
     unique_identities_180d |-> 0, unique_ssns_30d |-> 0,
     unique_ssns_90d |-> 0, unique_ssns_180d |-> 0, velocity_score |-> 0]

threshold_of(element_type) ==
    CASE element_type = "address" -> address_max_identities_6mo
      [] element_type = "phone" -> phone_max_identities_6mo
      [] element_type = "email" -> email_max_identities_6mo
      [] element_type = "device" -> 3
      [] OTHER -> 5

\* variant: above the threshold the base score is the escalation alone
calculate_element_score_restarting(element_type, velocity) ==
    LET threshold == threshold_of(element_type)
        n == velocity.unique_identities_180d
        base0 == IF n <= threshold
                    THEN Mul(Dec(3, 10), n, threshold)
                    ELSE Mul(Mul(One, Min(n - threshold, 3 * threshold), threshold),
                             233, 1000)
    IN  IF n <= 1 THEN 0 ELSE Min(One, base0)

\* ratio = n / threshold is kept as the pair (n, threshold): ratio <= 1.0 is
\* n <= threshold, ratio * 0.3 is 0.3 * n / threshold, and
\* min(ratio - 1.0, 3.0) is min(n - threshold, 3 * threshold) / threshold.
calculate_element_score(element_type, velocity) ==
    LET threshold == threshold_of(element_type)
        n == velocity.unique_identities_180d
        base0 == IF n <= threshold
                    THEN Mul(Dec(3, 10), n, threshold)
                    ELSE LET excess == Mul(One, Min(n - threshold, 3 * threshold),
                                           threshold)
                         IN Dec(3, 10) + Mul(excess, 233, 1000)
        base1 == IF velocity.unique_ssns_180d > 1
                    THEN base0 + Min(Dec(2, 10),
                                     (velocity.unique_ssns_180d - 1) * Dec(5, 100))
                    ELSE base0
        \* recency_ratio = n30 / n180 > 0.5
        base2 == IF n > 0 /\ 2 * velocity.unique_identities_30d > n
                    THEN Mul(base1, 12, 10)
                    ELSE base1
    IN  IF n <= 1 THEN 0 ELSE Min(One, base2)

get_element_velocity(element_type, element_hash) ==
    IF redis = "none" THEN empty_element_velocity
    ELSE IF redis = "down" THEN empty_element_velocity   \* except Exception
    ELSE LET key == <<element_type, element_hash>>
             identities == zset(zIdent, key)
             ssns == zset(zSsn, key)
             velocity ==
                 [unique_identities_30d |-> zcount(identities, now - WINDOW_30D),
                  unique_identities_90d |-> zcount(identities, now - WINDOW_90D),
                  unique_identities_180d |-> zcount(identities, now - WINDOW_180D),
                  unique_ssns_30d |-> zcount(ssns, now - WINDOW_30D),
                  unique_ssns_90d |-> zcount(ssns, now - WINDOW_90D),
                  unique_ssns_180d |-> zcount(ssns, now - WINDOW_180D),
                  velocity_score |-> 0]
         IN [velocity EXCEPT !.velocity_score =
                 calculate_element_score(element_type, velocity)]

calculate_overall_score(address, phone, email, device) ==
    Min(One, Mul(address, 25, 100) + Mul(phone, 35, 100)
           + Mul(email, 20, 100) + Mul(device, 20, 100))

identify_anomalies(address, phone, email, device) ==
       (IF address > Dec(5, 10) THEN <<"HIGH_ADDRESS_VELOCITY">> ELSE <<>>)
    \o (IF phone > Dec(5, 10) THEN <<"HIGH_PHONE_VELOCITY">> ELSE <<>>)
    \o (IF email > Dec(5, 10) THEN <<"HIGH_EMAIL_VELOCITY">> ELSE <<>>)
    \o (IF device > Dec(5, 10) THEN <<"SHARED_DEVICE">> ELSE <<>>)
    \o (IF address > Dec(3, 10) /\ phone > Dec(3, 10)
           THEN <<"ADDRESS_PHONE_CORRELATION">> ELSE <<>>)

velocity_risk_level(overall_score, anomalies) ==
    IF overall_score >= Dec(8, 10) \/ Len(anomalies) >= 4 THEN "critical"
    ELSE IF overall_score >= Dec(6, 10) \/ Len(anomalies) >= 3 THEN "high"
    ELSE IF overall_score >= Dec(4, 10) \/ Len(anomalies) >= 2 THEN "medium"
    ELSE IF overall_score >= Dec(2, 10) \/ Len(anomalies) >= 1 THEN "low"
    ELSE "minimal"

\* device_fingerprint is None, "" or a fingerprint; the first two are falsy
Truthy(x) == x # None /\ x # ""

VelocityAnalyzer_analyze(address_hash, phone_hash, email_hash, device_fingerprint) ==
    With(get_element_velocity("address", address_hash).velocity_score,
         LAMBDA address_velocity :
    With(get_element_velocity("phone", phone_hash).velocity_score,
         LAMBDA phone_velocity :
    With(get_element_velocity("email", email_hash).velocity_score,
         LAMBDA email_velocity :
    With(IF Truthy(device_fingerprint)
             THEN get_element_velocity("device", device_fingerprint).velocity_score
             ELSE 0,
         LAMBDA device_velocity :
    LET overall_score == calculate_overall_score(
            address_velocity, phone_velocity, email_velocity, device_velocity)
        anomalies == identify_anomalies(
            address_velocity, phone_velocity, email_velocity, device_velocity)
    IN  [address_velocity |-> address_velocity,
         phone_velocity |-> phone_velocity,
         email_velocity |-> email_velocity,
         device_velocity |-> device_velocity,
         overall_velocity_score |-> overall_score,
         anomalies |-> anomalies,
         risk_level |-> velocity_risk_level(overall_score, anomalies)]))))

----------------------------------------------------------------------------
(* Credit-bureau connector (src/src/ingestion/bureau_connector.py)         *)
(* The data a connector serves is a function of the SSN hash, as in        *)
(* MockBureauConnector, with file and tradeline ages relative to the       *)
(* clock.  A connector that is "down" raises on every call                 *)
(* (BureauConnector before connect()).  A call's outcome is the record     *)
(* [ok, val]: ok = FALSE is a raised exception.                            *)

Ok(v) == [ok |-> TRUE, none |-> FALSE, val |-> v]
OkNone == [ok |-> TRUE, none |-> TRUE, val |-> 0]
Raised == [ok |-> FALSE, none |-> TRUE, val |-> 0]

TL(is_au, opened_days_ago, credit_limit) ==
    [is_authorized_user |-> is_au, opened_days_ago |-> opened_days_ago,
     credit_limit |-> credit_limit]

\* n copies of a tradeline
Rep(n, t) == [k \in 1..n |-> t]

BureauData(ssn_hash) ==
    CASE ssn_hash = "ssn_nofile" ->
            [has_file |-> FALSE, file_age_months |-> 0, num_tradelines |-> 0,
             tradelines |-> <<>>]
      [] ssn_hash = "ssn_synthetic" ->
            [has_file |-> TRUE, file_age_months |-> 6, num_tradelines |-> 4,
             tradelines |-> Rep(3, TL(TRUE, 900, 20000)) \o Rep(1, TL(FALSE, 90, 3000))]
      [] ssn_hash = "ssn_ring" ->
            [has_file |-> TRUE, file_age_months |-> 12, num_tradelines |-> 8,
             tradelines |-> Rep(4, TL(TRUE, 60, 15000)) \o Rep(3, TL(TRUE, 400, 5000))
                            \o Rep(1, TL(FALSE, 200, 2000))]
      [] OTHER ->
            [has_file |-> TRUE, file_age_months |-> 120, num_tradelines |-> 8,
             tradelines |-> Rep(1, TL(TRUE, 1500, 12000)) \o Rep(7, TL(FALSE, 700, 9000))]

get_credit_file(ssn_hash) ==
    IF bureau = "down" THEN Raised
    ELSE IF BureauData(ssn_hash).has_file THEN Ok(BureauData(ssn_hash)) ELSE OkNone

get_tradelines(ssn_hash) ==
    IF bureau = "down" THEN Raised ELSE Ok(BureauData(ssn_hash).tradelines)

get_credit_file_age(ssn_hash) ==
    LET credit_file == get_credit_file(ssn_hash)
    IN  IF ~credit_file.ok THEN Raised
        ELSE IF credit_file.none THEN OkNone
        ELSE Ok(credit_file.val.file_age_months)

get_authorized_user_count(ssn_hash) ==
    LET tradelines == get_tradelines(ssn_hash)
    IN  IF ~tradelines.ok THEN Raised
        ELSE Ok(Len(SelectSeq(tradelines.val, LAMBDA t : t.is_authorized_user)))

----------------------------------------------------------------------------
(* CreditBehaviorAnalyzer (src/src/detection/credit_behavior.py)           *)

get_file_age(ssn_hash) ==
    IF bureau # "none" THEN get_credit_file_age(ssn_hash) ELSE OkNone

get_tradeline_count(ssn_hash) ==
    IF bureau # "none"
        THEN LET credit_file == get_credit_file(ssn_hash)
             IN  IF ~credit_file.ok THEN Raised
                 ELSE IF ~credit_file.none THEN Ok(credit_file.val.num_tradelines)
                 ELSE Ok(0)
        ELSE Ok(0)

get_au_account_count(ssn_hash) ==
    IF bureau # "none" THEN get_authorized_user_count(ssn_hash) ELSE Ok(0)

calculate_credit_velocity(ssn_hash) == 0

\* claimed_age_years = claimed_age_days / 365 is kept as the day count:
\* claimed_age_years > k is claimed_age_days > k * 365.
calculate_behavior_score(is_thin_file, file_age_months, au_ratio, credit_velocity, anomalies, claimed_age_days) ==
    Min(One,
        (IF is_thin_file THEN Dec(2, 10) ELSE 0)
      + (IF is_thin_file /\ claimed_age_days > 35 * 365 THEN Dec(3, 10) ELSE 0)
      + (IF au_ratio > Dec(5, 10) THEN Mul(au_ratio, 4, 10) ELSE 0)
      + Mul(credit_velocity, 3, 10)
      + (IF InList("FILE_AGE_MISMATCH", anomalies) THEN Dec(4, 10) ELSE 0))

\* variant: the file age compared with the whole expected minimum
file_age_mismatch_unscaled(file_age_months, claimed_age_days) ==
    file_age_months * 365 < Max(0, (claimed_age_days - 18 * 365) * 12)

\* expected_min_file_age = max(0, (claimed_age_days / 365 - 18) * 12), so
\* file_age_months < expected_min_file_age * 0.3 is, times 3650,
\* file_age_months * 3650 < max(0, (claimed_age_days - 18 * 365) * 12) * 3.
file_age_mismatch(file_age_months, claimed_age_days) ==
    file_age_months * 3650 < Max(0, (claimed_age_days - 18 * 365) * 12) * 3

\* analyze once the three bureau calls have returned
credit_profile(ssn_hash, claimed_age_days, file_age_months, num_tradelines, au_accounts) ==
    LET is_thin_file == num_tradelines < 3
        au_ratio == IF num_tradelines > 0
                       THEN Mul(One, au_accounts, num_tradelines) ELSE 0
        credit_velocity == calculate_credit_velocity(ssn_hash)
        anomalies ==
               (IF ~file_age_months.none
                   /\ file_age_mismatch(file_age_months.val, claimed_age_days)
                   THEN <<"FILE_AGE_MISMATCH">> ELSE <<>>)
            \o (IF is_thin_file /\ claimed_age_days > 30 * 365
                   THEN <<"THIN_FILE_OLD_IDENTITY">> ELSE <<>>)
            \o (IF au_ratio > Dec(6, 10) /\ au_accounts >= 3
                   THEN <<"AU_ABUSE_PATTERN">> ELSE <<>>)
            \o (IF credit_velocity > Dec(7, 10)
                   THEN <<"RAPID_CREDIT_BUILDING">> ELSE <<>>)
    IN  [is_thin_file |-> is_thin_file,
         file_age_months |-> file_age_months,
         num_tradelines |-> num_tradelines,
         num_authorized_user_accounts |-> au_accounts,
         au_to_primary_ratio |-> au_ratio,
         credit_building_velocity |-> credit_velocity,
         behavior_score |-> calculate_behavior_score(
             is_thin_file, file_age_months, au_ratio, credit_velocity,
             anomalies, claimed_age_days),
         anomalies |-> anomalies]

CreditBehaviorAnalyzer_analyze(ssn_hash, claimed_dob) ==
    With(get_file_age(ssn_hash), LAMBDA file_age_months :
    With(get_tradeline_count(ssn_hash), LAMBDA num_tradelines :
    With(get_au_account_count(ssn_hash), LAMBDA au_accounts :
        IF ~file_age_months.ok \/ ~num_tradelines.ok \/ ~au_accounts.ok
            THEN Raised
            ELSE Ok(credit_profile(ssn_hash, now - claimed_dob, file_age_months,
                                   num_tradelines.val, au_accounts.val)))))

----------------------------------------------------------------------------
(* AuthorizedUserDetector (src/src/detection/authorized_user.py)           *)

MAX_LEGITIMATE_AU_ACCOUNTS == 3
MIN_SUSPICIOUS_AU_COUNT == 4
HIGH_RISK_AU_COUNT == 6

AUAccount(tradeline) ==
    [added_days_ago |-> tradeline.opened_days_ago,
     credit_limit |-> tradeline.credit_limit,
     account_age_months |-> 0,
     primary_holder_relationship |-> None]

MapSeq(xs, F(_)) == [k \in 1..Len(xs) |-> F(xs[k])]
CountSeq(xs, P(_)) == Cardinality({k \in 1..Len(xs) : P(xs[k])})

get_au_accounts(ssn_hash) ==
    IF bureau = "none" THEN Ok(<<>>)
    ELSE LET tradelines == get_tradelines(ssn_hash)
         IN  IF ~tradelines.ok THEN Raised
             ELSE Ok(MapSeq(SelectSeq(tradelines.val,
                                      LAMBDA t : t.is_authorized_user), AUAccount))

\* _check_relationship finds no relationship for any holder (it returns None)
count_unrelated_au(au_accounts) ==
    IF ~auGraph THEN 0 ELSE CountSeq(au_accounts, LAMBDA au : TRUE)

\* unrelated_count / au_count > 0.7 is 10 * unrelated_count > 7 * au_count
identify_abuse_indicators(au_accounts, au_count, unrelated_count) ==
       (IF au_count >= HIGH_RISK_AU_COUNT THEN <<"EXCESSIVE_AU_ACCOUNTS">>
        ELSE IF au_count >= MIN_SUSPICIOUS_AU_COUNT THEN <<"HIGH_AU_COUNT">>
        ELSE <<>>)
    \o (IF au_count > 0 /\ 10 * unrelated_count > 7 * au_count
           THEN <<"MOSTLY_UNRELATED_AU">> ELSE <<>>)
    \o (IF au_count > 0
           /\ CountSeq(au_accounts, LAMBDA au : au.added_days_ago < 180) >= 3
           THEN <<"RAPID_AU_ADDITIONS">> ELSE <<>>)
    \o (IF CountSeq(au_accounts, LAMBDA au : au.credit_limit > 10000) >= 2
           THEN <<"HIGH_LIMIT_AU_ACCOUNTS">> ELSE <<>>)
    \o (IF CountSeq(au_accounts, LAMBDA au : au.account_age_months < 6) >= 2
           THEN <<"AU_ON_NEW_ACCOUNTS">> ELSE <<>>)

indicator_weight(indicator) ==
    CASE indicator = "EXCESSIVE_AU_ACCOUNTS" -> Dec(20, 100)
      [] indicator = "MOSTLY_UNRELATED_AU" -> Dec(25, 100)
      [] indicator = "RAPID_AU_ADDITIONS" -> Dec(15, 100)
      [] indicator = "HIGH_LIMIT_AU_ACCOUNTS" -> Dec(10, 100)
      [] indicator = "AU_ON_NEW_ACCOUNTS" -> Dec(10, 100)
      [] OTHER -> Dec(5, 100)

\* variant: the weighted sum without its cap at 1.0
calculate_abuse_probability_uncapped(au_count, unrelated_count, indicators) ==
      (IF au_count >= HIGH_RISK_AU_COUNT THEN Dec(40, 100)
       ELSE IF au_count >= MIN_SUSPICIOUS_AU_COUNT THEN Dec(25, 100)
       ELSE IF au_count >= MAX_LEGITIMATE_AU_ACCOUNTS THEN Dec(10, 100)
       ELSE 0)
    + (IF au_count > 0
          THEN Mul(Mul(One, unrelated_count, au_count), 3, 10) ELSE 0)
    + SumSeq([k \in 1..Len(indicators) |-> indicator_weight(indicators[k])])

calculate_abuse_probability(au_count, unrelated_count, indicators) ==
    Min(One,
        (IF au_count >= HIGH_RISK_AU_COUNT THEN Dec(40, 100)
         ELSE IF au_count >= MIN_SUSPICIOUS_AU_COUNT THEN Dec(25, 100)
         ELSE IF au_count >= MAX_LEGITIMATE_AU_ACCOUNTS THEN Dec(10, 100)
         ELSE 0)
      + (IF au_count > 0
            THEN Mul(Mul(One, unrelated_count, au_count), 3, 10) ELSE 0)
      + SumSeq(MapSeq(indicators, indicator_weight)))

\* variant: the level read off the probability alone
au_risk_level_by_probability(abuse_prob, indicators) ==
    IF abuse_prob >= Dec(8, 10) THEN "critical"
    ELSE IF abuse_prob >= Dec(6, 10) THEN "high"
    ELSE IF abuse_prob >= Dec(4, 10) THEN "medium"
    ELSE IF abuse_prob >= Dec(2, 10) THEN "low"
    ELSE "minimal"

au_risk_level(abuse_prob, indicators) ==
    IF abuse_prob >= Dec(8, 10) \/ InList("EXCESSIVE_AU_ACCOUNTS", indicators)
        THEN "critical"
    ELSE IF abuse_prob >= Dec(6, 10) THEN "high"
    ELSE IF abuse_prob >= Dec(4, 10) THEN "medium"
    ELSE IF abuse_prob >= Dec(2, 10) THEN "low"
    ELSE "minimal"

\* analyze once the authorized-user accounts have been fetched
au_profile(au_accounts) ==
    With(Len(au_accounts), LAMBDA au_count :
    With(count_unrelated_au(au_accounts), LAMBDA unrelated_count :
    With(identify_abuse_indicators(au_accounts, au_count, unrelated_count),
         LAMBDA indicators :
    With(calculate_abuse_probability(au_count, unrelated_count, indicators),
         LAMBDA abuse_prob :
        [au_account_count |-> au_count,
         unrelated_au_count |-> unrelated_count,
         abuse_probability |-> abuse_prob,
         abuse_indicators |-> indicators,
         risk_level |-> au_risk_level(abuse_prob, indicators)]))))

AuthorizedUserDetector_analyze(ssn_hash) ==
    With(get_au_accounts(ssn_hash), LAMBDA au_accounts :
        IF ~au_accounts.ok THEN Raised ELSE Ok(au_profile(au_accounts.val)))

----------------------------------------------------------------------------
(* BustOutPredictor (src/src/detection/bust_out_predictor.py), rule-based  *)
(* path (no trained model is loaded: _model is None).                      *)
(* Balances, payments and cash advances are whole dollars, utilization     *)
(* rates whole percents.  A polyfit slope is kept as the exact             *)
(* least-squares fraction num / den (den > 0), and compared by             *)
(* cross-multiplication.                                                   *)

bust_out_threshold == Dec(75, 100)

RECURSIVE SumXY(_, _)
SumXY(ys, k) == IF k > Len(ys) THEN 0 ELSE (k - 1) * ys[k] + SumXY(ys, k + 1)

\* np.polyfit(range(n), ys, 1)[0] = SlopeNum(ys) / SlopeDen(ys)
SlopeNum(ys) ==
    LET n == Len(ys)
    IN  n * SumXY(ys, 1) - ((n * (n - 1)) \div 2) * SumSeq(ys)
SlopeDen(ys) ==
    LET n == Len(ys)
        sx == (n * (n - 1)) \div 2
        sxx == ((n - 1) * n * (2 * n - 1)) \div 6
    IN  n * sxx - sx * sx

LastN(xs, n) == SubSeq(xs, Len(xs) - n + 1, Len(xs))
MaxSeq(xs) == CHOOSE m \in ToSet(xs) : \A y \in ToSet(xs) : y <= m

\* variant: the last three months below half of the earlier mean
declining_payments_by_half(payments) ==
    /\ Len(payments) >= 6
    /\ SumSeq(LastN(payments, 3)) * (Len(payments) - 3) * 10
         < SumSeq(SubSeq(payments, 1, Len(payments) - 3)) * 3 * 5

\* np.mean(payments[-3:]) < np.mean(payments[:-3]) * 0.8, with >= 6 months
declining_payments(payments) ==
    /\ Len(payments) >= 6
    /\ SumSeq(LastN(payments, 3)) * (Len(payments) - 3) * 10
         < SumSeq(SubSeq(payments, 1, Len(payments) - 3)) * 3 * 8

\* The features the rules read, each as the comparison the rules make of
\* it; a feature absent from the dict takes features.get's default.
extract_sequence_features(seq) ==
    LET hasBal == Len(seq.monthly_balances) >= 3
        hasPay == Len(seq.monthly_payments) >= 3
        hasUtil == Len(seq.utilization_rates) >= 3
        hasCash == Len(seq.cash_advance_amounts) > 0
        cash == seq.cash_advance_amounts
    IN  [balance_trend_gt_500 |->
             hasBal /\ SlopeNum(seq.monthly_balances) > 500 * SlopeDen(seq.monthly_balances),
         balance_trend_gt_1000 |->
             hasBal /\ SlopeNum(seq.monthly_balances) > 1000 * SlopeDen(seq.monthly_balances),
         payment_trend_lt_m100 |->
             hasPay /\ SlopeNum(seq.monthly_payments) < (-100) * SlopeDen(seq.monthly_payments),
         declining_payments |-> hasPay /\ declining_payments(seq.monthly_payments),
         max_utilization |-> IF hasUtil THEN MaxSeq(seq.utilization_rates) ELSE 0,
         utilization_trend_gt_005 |->
             hasUtil /\ SlopeNum(seq.utilization_rates) > 5 * SlopeDen(seq.utilization_rates),
         utilization_trend_gt_01 |->
             hasUtil /\ SlopeNum(seq.utilization_rates) > 10 * SlopeDen(seq.utilization_rates),
         cash_advance_frequency |->
             IF hasCash THEN CountSeq(cash, LAMBDA c : c > 0) ELSE 0,
         recent_cash_advances |->
             IF hasCash
                 THEN (IF Len(cash) >= 3 THEN SumSeq(LastN(cash, 3)) ELSE SumSeq(cash))
                 ELSE 0,
         months_on_books |-> seq.months_on_books]

\* synthetic_score is the feature predict adds to the dict
calculate_probability(features, synthetic_score) ==
    Min(One,
        (IF features.utilization_trend_gt_005 THEN Dec(20, 100) ELSE 0)
      + (IF features.max_utilization > 90 THEN Dec(15, 100) ELSE 0)
      + (IF features.declining_payments THEN Dec(25, 100) ELSE 0)
      + (IF features.payment_trend_lt_m100 THEN Dec(15, 100) ELSE 0)
      + (IF features.cash_advance_frequency > 2 THEN Dec(20, 100) ELSE 0)
      + (IF features.recent_cash_advances > 1000 THEN Dec(15, 100) ELSE 0)
      + (IF features.months_on_books < 12 /\ features.balance_trend_gt_500
            THEN Dec(20, 100) ELSE 0)
      + (IF synthetic_score > Dec(7, 10) THEN Dec(30, 100) ELSE 0))

identify_warning_signals(features, synthetic_score) ==
       (IF features.max_utilization > 95 THEN <<"MAXED_OUT">> ELSE <<>>)
    \o (IF features.declining_payments THEN <<"DECLINING_PAYMENTS">> ELSE <<>>)
    \o (IF features.cash_advance_frequency >= 3
           THEN <<"FREQUENT_CASH_ADVANCES">> ELSE <<>>)
    \o (IF features.utilization_trend_gt_01
           THEN <<"RAPID_UTILIZATION_INCREASE">> ELSE <<>>)
    \o (IF features.balance_trend_gt_1000 THEN <<"RAPID_BALANCE_GROWTH">> ELSE <<>>)
    \o (IF synthetic_score > Dec(7, 10) THEN <<"HIGH_SYNTHETIC_RISK">> ELSE <<>>)

\* util_trend = mean(diff(last six rates)) = (last - first) / (k - 1)
estimate_time_to_bust_out(seq) ==
    LET rates == seq.utilization_rates
        k == Min(6, Len(rates))
        current_util == rates[Len(rates)]
        delta == current_util - rates[Len(rates) - k + 1]
    IN  IF Len(rates) < 3 THEN 90
        ELSE IF current_util >= 95 THEN 30
        ELSE IF delta > 0
            THEN Min(90, Max(7, (30 * (100 - current_util) * (k - 1)) \div delta))
        ELSE 90

determine_risk_action(probability) ==
    IF probability >= Dec(9, 10)
        THEN <<"critical", "IMMEDIATE_REVIEW_CREDIT_FREEZE">>
    ELSE IF probability >= bust_out_threshold
        THEN <<"high", "URGENT_REVIEW_REDUCE_LIMIT">>
    ELSE IF probability >= Dec(5, 10) THEN <<"medium", "MONITOR_CLOSELY">>
    ELSE IF probability >= Dec(3, 10) THEN <<"low", "STANDARD_MONITORING">>
    ELSE <<"minimal", "NO_ACTION">>

BustOutPredictor_predict(credit_sequence, synthetic_score) ==
    With(extract_sequence_features(credit_sequence), LAMBDA features :
    With(calculate_probability(features, synthetic_score), LAMBDA probability :
        [bust_out_probability |-> probability,
         days_to_bust_out |->
             IF probability > Dec(5, 10)
                 THEN estimate_time_to_bust_out(credit_sequence) ELSE 0,
         risk_level |-> determine_risk_action(probability)[1],
         warning_signals |-> identify_warning_signals(features, synthetic_score),
         recommended_action |-> determine_risk_action(probability)[2]]))

----------------------------------------------------------------------------
(* EnsembleDetector (src/src/detection/ensemble.py)                        *)

critical_signals ==
    {"SSN_DOB_MISMATCH", "DEATH_MASTER_MATCH", "SHARED_SSN", "FRAUD_DEVICE"}

\* variant: the weighted sum without the renormalisation by 0.9
calculate_final_score_unnormalized(synthetic, bust_out, velocity, credit, au) ==
    Min(One,
        Mul(synthetic.score, 40, 100)
      + Mul(velocity.overall_velocity_score, 20, 100)
      + Mul(credit.behavior_score, 15, 100)
      + Mul(au.abuse_probability, 15, 100)
      + (IF ~bust_out.none
            THEN Mul(bust_out.val.bust_out_probability, 10, 100) ELSE 0))

calculate_final_score(synthetic, bust_out, velocity, credit, au) ==
    LET score == Mul(synthetic.score, 40, 100)
               + Mul(velocity.overall_velocity_score, 20, 100)
               + Mul(credit.behavior_score, 15, 100)
               + Mul(au.abuse_probability, 15, 100)
    IN  Min(One,
            IF ~bust_out.none
                THEN score + Mul(bust_out.val.bust_out_probability, 10, 100)
                ELSE Mul(score, 10, 9))

\* variant: the level read off the score alone
risk_level_by_score(score, signals) ==
    IF score >= Dec(85, 100) THEN "critical"
    ELSE IF score >= Dec(65, 100) THEN "high"
    ELSE IF score >= Dec(45, 100) THEN "medium"
    ELSE IF score >= Dec(25, 100) THEN "low"
    ELSE "minimal"

\* variant: the medium and high bands exchanged
risk_level_swapped_bands(score, signals) ==
    IF \E k \in 1..Len(signals) : signals[k] \in critical_signals THEN "critical"
    ELSE IF score >= Dec(85, 100) THEN "critical"
    ELSE IF score >= Dec(65, 100) THEN "medium"
    ELSE IF score >= Dec(45, 100) THEN "high"
    ELSE IF score >= Dec(25, 100) THEN "low"
    ELSE "minimal"

determine_final_risk_level(score, signals) ==
    IF \E k \in 1..Len(signals) : signals[k] \in critical_signals THEN "critical"
    ELSE IF score >= Dec(85, 100) THEN "critical"
    ELSE IF score >= Dec(65, 100) THEN "high"
    ELSE IF score >= Dec(45, 100) THEN "medium"
    ELSE IF score >= Dec(25, 100) THEN "low"
    ELSE "minimal"

\* variant: the action read off the level alone
recommended_action_by_level(risk_level, signals, bust_out) ==
    IF risk_level = "critical" THEN "IMMEDIATE_REVIEW_DECLINE_APPLICATION"
    ELSE IF risk_level = "high" THEN "MANUAL_REVIEW_REQUIRED"
    ELSE IF risk_level = "medium" THEN "ENHANCED_VERIFICATION"
    ELSE IF risk_level = "low" THEN "STANDARD_PROCESSING_MONITOR"
    ELSE "APPROVE"

get_recommended_action(risk_level, signals, bust_out) ==
    IF risk_level = "critical"
        THEN (IF ~bust_out.none /\ bust_out.val.bust_out_probability > Dec(8, 10)
                 THEN "IMMEDIATE_CREDIT_FREEZE_SAR_FILING"
                 ELSE "IMMEDIATE_REVIEW_DECLINE_APPLICATION")
    ELSE IF risk_level = "high" THEN "MANUAL_REVIEW_REQUIRED"
    ELSE IF risk_level = "medium" THEN "ENHANCED_VERIFICATION"
    ELSE IF risk_level = "low" THEN "STANDARD_PROCESSING_MONITOR"
    ELSE "APPROVE"

\* variant: the collected list returned as it is
keep_repetitions(all_signals) == all_signals

\* list(set(all_signals)): the signals without repetition (Python leaves the
\* order of the list open; no property below reads it)
deduplicate(all_signals) == SetToList(ToSet(all_signals))

\* analyze from the synthetic scoring on, the three detectors having returned
analyze_scored(in, velocity_result, credit_result, au_result) ==
    With(SyntheticScorer_score(
             in.ssn_signals, in.graph_features,
             [address_velocity_score |-> velocity_result.address_velocity,
              phone_velocity_score |-> velocity_result.phone_velocity,
              email_velocity_score |-> velocity_result.email_velocity],
             [is_thin_file |-> credit_result.is_thin_file,
              file_age_mismatch |->
                  InList("FILE_AGE_MISMATCH", credit_result.anomalies),
              rapid_credit_building |->
                  InList("RAPID_CREDIT_BUILDING", credit_result.anomalies),
              au_abuse_pattern |-> au_result.abuse_probability > Dec(5, 10)],
             [weak_binding |-> in.device_fingerprint = None,
              shared_device_count |-> 0,
              known_fraud_device |-> FALSE,
              emulator_detected |-> FALSE]),
         LAMBDA synthetic_result :
    With(IF Truthy(in.account_id) /\ ~in.credit_sequence.none
             THEN Ok(BustOutPredictor_predict(
                     in.credit_sequence.val, synthetic_result.score))
             ELSE OkNone,
         LAMBDA bust_out_result :
    With(   velocity_result.anomalies
         \o credit_result.anomalies
         \o au_result.abuse_indicators
         \o synthetic_result.triggered_signals
         \o (IF ~bust_out_result.none
                THEN bust_out_result.val.warning_signals ELSE <<>>),
         LAMBDA all_signals :
    With(calculate_final_score(synthetic_result, bust_out_result, velocity_result,
                               credit_result, au_result),
         LAMBDA final_score :
    With(determine_final_risk_level(final_score, all_signals),
         LAMBDA final_risk_level :
        [kind |-> "result",
         input |-> in,
         final_risk_score |-> final_score,
         final_risk_level |-> final_risk_level,
         synthetic_score |-> synthetic_result,
         bust_out_prediction |-> bust_out_result,
         velocity_analysis |-> velocity_result,
         credit_behavior |-> credit_result,
         au_analysis |-> au_result,
         all_signals |-> deduplicate(all_signals),
         recommended_action |-> get_recommended_action(
             final_risk_level, all_signals, bust_out_result),
         analyzed_at |-> now])))))

\* The outcome of analyze(in): [kind |-> "raised"] when an exception leaves
\* the call, else the EnsembleResult (kind "result") with the call's
\* arguments and analyzed_at.  The explanation text is not modelled.
EnsembleDetector_analyze(in) ==
    With(VelocityAnalyzer_analyze(
             in.address_hash, in.phone_hash, in.email, in.device_fingerprint),
         LAMBDA velocity_result :
    With(CreditBehaviorAnalyzer_analyze(in.ssn_hash, in.claimed_dob),
         LAMBDA credit_call :
    With(AuthorizedUserDetector_analyze(in.ssn_hash), LAMBDA au_call :
        IF ~credit_call.ok \/ ~au_call.ok
            THEN [kind |-> "raised"]
            ELSE analyze_scored(in, velocity_result, credit_call.val, au_call.val))))

----------------------------------------------------------------------------
(* The scoring service: the state machine of specification Spec            *)

Day0 == 1000         \* the clock at start
MaxTicks == 1        \* days the clock may advance
MaxUses == 1         \* record_element_use calls on top of the initial store
NewIdentity == 99    \* the identity (and SSN) hash those calls record

AddressKey == <<"address", "a1">>
Address2Key == <<"address", "a2">>
PhoneKey == <<"phone", "p1">>
EmailKey == <<"email", "e1">>
DeviceKey == <<"device", "d1">>
Keys == {AddressKey, Address2Key, PhoneKey, EmailKey, DeviceKey}

\* members lo..hi, all with timestamp ts
Members(lo, hi, ts) == [m \in lo..hi |-> ts]
Join(f, g) == [m \in (DOMAIN f) \cup (DOMAIN g) |-> IF m \in DOMAIN f THEN f[m] ELSE g[m]]

\* The velocity store of a deployment in use: a ring of identities shares
\* address a1, phone p1, e-mail e1 and device d1; address a2 is shared by a
\* few.  Some uses are exactly 30 and 180 days old.
HotIdent ==
    [k \in Keys |->
        CASE k = AddressKey -> Join(Members(1, 11, Day0 - 30), Members(12, 20, Day0 - 100))
          [] k = Address2Key -> Join(Members(1, 4, Day0 - 30), Members(5, 7, Day0 - 100))
          [] k = PhoneKey -> Members(1, 5, Day0 - 10)
          [] k = EmailKey -> Members(1, 8, Day0 - 180)
          [] OTHER -> Members(1, 12, Day0 - 5)]
HotSsn ==
    [k \in Keys |->
        CASE k = AddressKey -> Members(1, 6, Day0 - 30)
          [] k = Address2Key -> Members(1, 4, Day0 - 30)
          [] k = PhoneKey -> Members(1, 3, Day0 - 10)
          [] k = EmailKey -> Members(1, 1, Day0 - 180)
          [] OTHER -> Members(1, 2, Day0 - 5)]
EmptyStore == [k \in Keys |-> <<>>]

Seq12(first, step) == [k \in 1..12 |-> first + (k - 1) * step]

BustOutSequence ==
    [monthly_balances |-> Seq12(1000, 600),
     monthly_payments |-> Seq12(500, -30),
     utilization_rates |-> Seq12(20, 7),
     cash_advance_amounts |-> Seq12(0, 0) \o <<500, 800, 1200>>,
     months_on_books |-> 10]
SteadySequence ==
    [monthly_balances |-> Seq12(2000, 0),
     monthly_payments |-> Seq12(400, 0),
     utilization_rates |-> Seq12(30, 0),
     cash_advance_amounts |-> <<>>,
     months_on_books |-> 36]
ShortSequence ==
    [monthly_balances |-> <<900, 4000>>,
     monthly_payments |-> <<50, 0>>,
     utilization_rates |-> <<40, 96>>,
     cash_advance_amounts |-> <<1500>>,
     months_on_books |-> 2]

GraphFeatures(shared_ssn, density, size, neighbor_avg) ==
    [shared_ssn_count |-> shared_ssn, cluster_density |-> density,
     cluster_size |-> size, neighbor_avg_synthetic_score |-> neighbor_avg]

\* the arguments of analyze
SsnHashes == {"ssn_nofile", "ssn_synthetic", "ssn_ring", "ssn_legit"}
ClaimedDobs == {Day0 - 9000, Day0 - 35 * 365}
DeviceFingerprints == {None, "d1"}
BustOutArgs ==
    {<<None, OkNone>>, <<"acct", OkNone>>, <<None, Ok(BustOutSequence)>>,
     <<"", Ok(BustOutSequence)>>, <<"acct", Ok(BustOutSequence)>>,
     <<"acct", Ok(SteadySequence)>>, <<"acct", Ok(ShortSequence)>>}
SsnSignalDicts ==
    {{}, {"ssn_dob_mismatch"}, {"death_master_match", "multiple_ssns"},
     {"invalid_ssn", "itin_as_ssn", "multiple_ssns"}, {"is_itin"}}
GraphFeatureDicts ==
    {GraphFeatures(0, 0, 1, 0), GraphFeatures(1, Dec(4, 10), 6, Dec(5, 10)),
     GraphFeatures(0, Dec(8, 10), 12, Dec(7, 10))}

BaseInput ==
    [ssn_hash |-> "ssn_ring", claimed_dob |-> Day0 - 9000, address_hash |-> "a1",
     phone_hash |-> "p1", email |-> "e1", device_fingerprint |-> "d1",
     account_id |-> "acct", credit_sequence |-> Ok(BustOutSequence),
     ssn_signals |-> {}, graph_features |-> GraphFeatures(0, 0, 1, 0)]

\* The requests: the base application varied in its credit file and
\* bust-out arguments, in its SSN signals and graph features, and in its
\* date of birth, device and address.
Inputs ==
    {[BaseInput EXCEPT !.ssn_hash = s, !.account_id = b[1], !.credit_sequence = b[2]] :
        s \in SsnHashes, b \in {<<None, OkNone>>, <<"acct", Ok(BustOutSequence)>>}}
    \cup
    {[BaseInput EXCEPT !.account_id = b[1], !.credit_sequence = b[2]] : b \in BustOutArgs}
    \cup
    {[BaseInput EXCEPT !.ssn_signals = x, !.graph_features = g] :
        x \in SsnSignalDicts, g \in GraphFeatureDicts}
    \cup
    {[BaseInput EXCEPT !.ssn_hash = "ssn_nofile", !.claimed_dob = d,
                       !.device_fingerprint = f, !.address_hash = a,
                       !.account_id = None, !.credit_sequence = OkNone] :
        d \in ClaimedDobs, f \in DeviceFingerprints, a \in {"a1", "a2"}}

NoResult == [kind |-> "none"]

NoRead == [kind |-> "none"]

NoCall == [fn |-> "none"]

\* a velocity store of one element with nothing recorded
NoUses == [identities |-> <<>>, ssns |-> <<>>, meta |-> <<>>, uses |-> {}, calls |-> 0]
NoWriteBack == [active |-> FALSE, todo |-> <<>>, runs |-> 0]

\* no broadcast in progress and none made
NoSending ==
    [pc |-> "idle", current |-> 0, todo |-> {}, size |-> 0, disconnected |-> {},
     attempted |-> {}, tracked |-> {}, runs |-> 0]
NoResponse == [op |-> "none"]

\* the API's managers after construction: no websocket tracked or opened,
\* no broadcast in progress, no case, no request made
IdleApi ==
    /\ connections = {}
    /\ sockets = <<>>
    /\ sending = NoSending
    /\ cases = <<>>
    /\ response = NoResponse

\* the graph store empty, no graph driver, no cluster detection run, no read
IdleCluster ==
    /\ gstore = {}
    /\ gdriver = "none"
    /\ clusters = OkNone
    /\ lastMinSize = 0
    /\ nodeProps = <<>>
    /\ writeBack = NoWriteBack
    /\ committed = <<>>
    /\ cached_graph = OkNone
    /\ observed = NoRead
    /\ replay = [w \in {"a", "b"} |-> NoUses]
    /\ call = NoCall

Init ==
    /\ now = Day0
    /\ \/ redis = "none" /\ zIdent = EmptyStore /\ zSsn = EmptyStore
       \/ redis = "up" /\ zIdent = HotIdent /\ zSsn = HotSsn
    /\ \/ bureau = "none" /\ auGraph = FALSE
       \/ bureau = "up" /\ auGraph = (redis = "up")
    /\ dirty = FALSE
    /\ result = NoResult
    /\ IdleCluster
    /\ IdleApi

\* variant: a scoring request that also records the applicant's phone use
AnalyzeRecording(in) ==
    /\ result' = EnsembleDetector_analyze(in)
    /\ dirty' = FALSE
    /\ IF redis = "up"
          THEN /\ zIdent' = [zIdent EXCEPT ![PhoneKey] = zadd(@, NewIdentity, now)]
               /\ zSsn' = [zSsn EXCEPT ![PhoneKey] = zadd(@, NewIdentity, now)]
          ELSE UNCHANGED <<zIdent, zSsn>>
    /\ UNCHANGED <<now, redis, bureau, auGraph>>
    /\ UNCHANGED clusterVars

\* a scoring request: EnsembleDetector.analyze(**in)
Analyze(in) ==
    /\ result' = EnsembleDetector_analyze(in)
    /\ dirty' = FALSE
    /\ UNCHANGED <<now, redis, zIdent, zSsn, bureau, auGraph>>
    /\ UNCHANGED clusterVars

\* a day passes
Tick ==
    /\ now < Day0 + MaxTicks
    /\ now' = now + 1
    /\ UNCHANGED <<redis, zIdent, zSsn, bureau, auGraph, dirty, result>>
    /\ UNCHANGED clusterVars

\* uses recorded since the start
RecordedUses ==
    Cardinality({k \in Keys : \E m \in DOMAIN zIdent[k] : zIdent[k][m] >= Day0})

\* VelocityAnalyzer.record_element_use(element_type, element_hash,
\*     identity_hash, ssn_hash) at timestamp now
RecordElementUse(key, identity_hash, ssn_hash) ==
    /\ RecordedUses < MaxUses
    /\ IF redis = "up"
          THEN /\ zIdent' = [zIdent EXCEPT ![key] = zadd(@, identity_hash, now)]
               /\ zSsn' = [zSsn EXCEPT ![key] = zadd(@, ssn_hash, now)]
               /\ dirty' = TRUE
          ELSE UNCHANGED <<zIdent, zSsn, dirty>>
    /\ UNCHANGED <<now, redis, bureau, auGraph, result>>
    /\ UNCHANGED clusterVars

\* the velocity store becomes unreachable, or reachable again
RedisFail ==
    /\ redis = "up"
    /\ redis' = "down"
    /\ dirty' = TRUE
    /\ UNCHANGED <<now, zIdent, zSsn, bureau, auGraph, result>>
    /\ UNCHANGED clusterVars
RedisRecover ==
    /\ redis = "down"
    /\ redis' = "up"
    /\ dirty' = TRUE
    /\ UNCHANGED <<now, zIdent, zSsn, bureau, auGraph, result>>
    /\ UNCHANGED clusterVars

\* the bureau connector loses, or regains, its connection
BureauFail ==
    /\ bureau = "up"
    /\ bureau' = "down"
    /\ dirty' = TRUE
    /\ UNCHANGED <<now, redis, zIdent, zSsn, auGraph, result>>
    /\ UNCHANGED clusterVars
BureauRecover ==
    /\ bureau = "down"
    /\ bureau' = "up"
    /\ dirty' = TRUE
    /\ UNCHANGED <<now, redis, zIdent, zSsn, auGraph, result>>
    /\ UNCHANGED clusterVars

Next ==
    \/ \E in \in Inputs : Analyze(in)
    \/ Tick
    \/ RecordElementUse(PhoneKey, NewIdentity, NewIdentity)
    \/ RedisFail
    \/ RedisRecover
    \/ BureauFail
    \/ BureauRecover

Spec == Init /\ [][Next]_vars

----------------------------------------------------------------------------
(* Properties of the scoring service (specification Spec)                  *)

InUnit(x) == 0 <= x /\ x <= One
IsResult == result.kind = "result"
HasBustOut == IsResult /\ ~result.bust_out_prediction.none
BustOutProbability == result.bust_out_prediction.val.bust_out_probability

\* C1: in every result of analyze, final_risk_score, the synthetic score,
\* its five component scores, the overall velocity score, the credit
\* behavior_score, the AU abuse_probability and (when there is a bust-out
\* prediction) the bust_out_probability all lie in [0, 1].
C1_ScoresInUnitInterval ==
    IsResult =>
        /\ InUnit(result.final_risk_score)
        /\ InUnit(result.synthetic_score.score)
        /\ \A c \in {"ssn", "graph", "velocity", "credit", "device"} :
               InUnit(result.synthetic_score.component_scores[c])
        /\ InUnit(result.velocity_analysis.overall_velocity_score)
        /\ InUnit(result.credit_behavior.behavior_score)
        /\ InUnit(result.au_analysis.abuse_probability)
        /\ (HasBustOut => InUnit(BustOutProbability))

\* a result in which the caps are at work: the SSN component and the AU
\* abuse probability are both at 1.0 and a bust-out prediction was made
C1_Witness ==
    /\ HasBustOut
    /\ result.synthetic_score.component_scores.ssn = One
    /\ result.au_analysis.abuse_probability = One
    /\ result.final_risk_score > Dec(5, 10)

\* C2: whenever the signals collected by analyze contain SSN_DOB_MISMATCH,
\* DEATH_MASTER_MATCH, SHARED_SSN or FRAUD_DEVICE, the returned
\* final_risk_level is "critical" whatever the score; and the level
\* function gives "critical" for every score as soon as one of the four
\* names is in the signal list.
C2_CriticalSignalOverride ==
    /\ (IsResult
        /\ \E sig \in {"SSN_DOB_MISMATCH", "DEATH_MASTER_MATCH", "SHARED_SSN",
                       "FRAUD_DEVICE"} : InList(sig, result.all_signals))
           => result.final_risk_level = "critical"
    /\ \A sig \in {"SSN_DOB_MISMATCH", "DEATH_MASTER_MATCH", "SHARED_SSN",
                   "FRAUD_DEVICE"} :
           \A score \in {0, Dec(25, 100), Dec(84, 100), One} :
               /\ determine_final_risk_level(score, <<sig>>) = "critical"
               /\ determine_final_risk_level(score, <<"THIN_FILE", sig, "AU_ABUSE">>)
                      = "critical"

\* a result carrying SHARED_SSN whose score alone would not be critical
C2_Witness ==
    /\ IsResult
    /\ InList("SHARED_SSN", result.all_signals)
    /\ result.final_risk_score < Dec(45, 100)
    /\ result.final_risk_level = "critical"

\* C3 (as stated): analyze always returns an EnsembleResult; no failure of a
\* collaborator call propagates out of it.
C3_AlwaysReturnsResult == result.kind # "raised"

VelocityNeutral ==
    /\ result.velocity_analysis.address_velocity = 0
    /\ result.velocity_analysis.phone_velocity = 0
    /\ result.velocity_analysis.email_velocity = 0
    /\ result.velocity_analysis.device_velocity = 0
    /\ result.velocity_analysis.overall_velocity_score = 0
    /\ result.velocity_analysis.risk_level = "minimal"
    /\ result.velocity_analysis.anomalies = <<>>
CreditNeutral ==
    /\ result.credit_behavior.behavior_score = 0
    /\ result.credit_behavior.anomalies = <<>>
AuNeutral ==
    /\ result.au_analysis.abuse_probability = 0
    /\ result.au_analysis.abuse_indicators = <<>>

\* C4 (as stated): a detector whose collaborator is absent (None) yields a
\* neutral result: zero risk contribution and no signals, for the velocity
\* analyzer (no store client), the credit-behavior analyzer and the
\* authorized-user detector (no bureau connector).
C4_AbsentCollaboratorNeutral ==
    IsResult =>
        /\ (redis = "none" => VelocityNeutral)
        /\ (bureau = "none" => CreditNeutral /\ AuNeutral)

Rank(level) ==
    CASE level = "minimal" -> 0
      [] level = "low" -> 1
      [] level = "medium" -> 2
      [] level = "high" -> 3
      [] level = "critical" -> 4

\* scores 0, 0.05, ..., 1 and the score one unit below each of them
ScoreGrid ==
    {k * Dec(5, 100) : k \in 0..20} \cup {k * Dec(5, 100) - 1 : k \in 1..20}

\* C6: for the signal list of any result, the level is monotonic in the
\* score: of two scores s1 <= s2, s2 never gets the lower level in the order
\* minimal < low < medium < high < critical; in particular no smaller score
\* gets a higher level than the result's own score got, and no greater
\* score a lower one.
C6_LevelMonotonicInScore ==
    IsResult =>
        /\ \A s1 \in ScoreGrid : \A s2 \in ScoreGrid :
               s1 <= s2 =>
                   Rank(determine_final_risk_level(s1, result.all_signals))
                       <= Rank(determine_final_risk_level(s2, result.all_signals))
        /\ \A s \in ScoreGrid :
               /\ s <= result.final_risk_score =>
                      Rank(determine_final_risk_level(s, result.all_signals))
                          <= Rank(result.final_risk_level)
               /\ s >= result.final_risk_score =>
                      Rank(determine_final_risk_level(s, result.all_signals))
                          >= Rank(result.final_risk_level)

\* a result without critical signal, whose level "high" comes from its score
C6_Witness ==
    /\ IsResult
    /\ \A k \in 1..Len(result.all_signals) :
           result.all_signals[k] \notin critical_signals
    /\ result.all_signals # <<>>
    /\ result.final_risk_level = "high"

\* 0.40*synthetic + 0.20*velocity + 0.15*credit + 0.15*AU of the result
WeightedFour ==
      Mul(result.synthetic_score.score, 2, 5)
    + Mul(result.velocity_analysis.overall_velocity_score, 1, 5)
    + Mul(result.credit_behavior.behavior_score, 3, 20)
    + Mul(result.au_analysis.abuse_probability, 3, 20)

\* C7: final_risk_score is min(1, 0.40*synthetic + 0.20*velocity +
\* 0.15*credit + 0.15*AU + 0.10*bust_out) when there is a bust-out
\* prediction and min(1, (0.40*synthetic + 0.20*velocity + 0.15*credit +
\* 0.15*AU) / 0.9) when there is none; and there is a bust-out prediction
\* exactly when both an account identifier (a non-empty one) and a credit
\* sequence were supplied.
C7_FinalScoreFormula ==
    IsResult =>
        /\ HasBustOut <=>
               (/\ result.input.account_id # None
                /\ result.input.account_id # ""
                /\ ~result.input.credit_sequence.none)
        /\ HasBustOut =>
               result.final_risk_score
                   = Min(One, WeightedFour + Mul(BustOutProbability, 1, 10))
        /\ ~HasBustOut =>
               result.final_risk_score = Min(One, (WeightedFour \div 9) * 10)
        /\ ~HasBustOut => WeightedFour % 9 = 0

\* a result without bust-out prediction (an account identifier but no
\* credit sequence) whose renormalised score is strictly inside (0, 1)
C7_Witness ==
    /\ IsResult
    /\ ~HasBustOut
    /\ result.input.account_id = "acct"
    /\ result.final_risk_score > WeightedFour
    /\ result.final_risk_score < One

\* C8: recommended_action is determined by final_risk_level and the bust-out
\* severity alone: critical with a bust-out probability above 0.8 gives the
\* credit freeze and SAR filing, critical otherwise the decline, high the
\* manual review, medium the enhanced verification, low the standard
\* monitoring, minimal the approval; so a level forced to critical by a
\* critical signal gets one of the two critical actions.
C8_ActionFromLevelAndBustOut ==
    IsResult =>
        result.recommended_action =
            CASE result.final_risk_level = "critical"
                     /\ HasBustOut /\ BustOutProbability > Dec(8, 10)
                     -> "IMMEDIATE_CREDIT_FREEZE_SAR_FILING"
              [] result.final_risk_level = "critical"
                     /\ ~(HasBustOut /\ BustOutProbability > Dec(8, 10))
                     -> "IMMEDIATE_REVIEW_DECLINE_APPLICATION"
              [] result.final_risk_level = "high" -> "MANUAL_REVIEW_REQUIRED"
              [] result.final_risk_level = "medium" -> "ENHANCED_VERIFICATION"
              [] result.final_risk_level = "low" -> "STANDARD_PROCESSING_MONITOR"
              [] result.final_risk_level = "minimal" -> "APPROVE"

\* a result forced to critical by a critical signal, its score below the
\* critical band, with a bust-out probability above 0.8
C8_Witness ==
    /\ HasBustOut
    /\ BustOutProbability > Dec(8, 10)
    /\ result.final_risk_score < Dec(85, 100)
    /\ \E k \in 1..Len(result.all_signals) :
           result.all_signals[k] \in critical_signals
    /\ result.recommended_action = "IMMEDIATE_CREDIT_FREEZE_SAR_FILING"

\* the signals of the five sub-results of a result
SubResultSignals ==
    ToSet(result.velocity_analysis.anomalies)
    \cup ToSet(result.credit_behavior.anomalies)
    \cup ToSet(result.au_analysis.abuse_indicators)
    \cup ToSet(result.synthetic_score.triggered_signals)
    \cup (IF HasBustOut
             THEN ToSet(result.bust_out_prediction.val.warning_signals) ELSE {})

\* C9: all_signals holds no signal name twice, and its names are exactly
\* those of the velocity anomalies, the credit-behavior anomalies, the AU
\* abuse indicators, the synthetic triggered signals and (when there is
\* one) the bust-out prediction's warning signals.
C9_SignalsDeduplicatedUnion ==
    IsResult =>
        /\ \A j \in 1..Len(result.all_signals) : \A k \in 1..Len(result.all_signals) :
               result.all_signals[j] = result.all_signals[k] => j = k
        /\ ToSet(result.all_signals) = SubResultSignals

\* a result in which two sub-results raise the same signal
C9_Witness ==
    /\ IsResult
    /\ InList("HIGH_ADDRESS_VELOCITY", result.velocity_analysis.anomalies)
    /\ InList("HIGH_ADDRESS_VELOCITY", result.synthetic_score.triggered_signals)
    /\ Len(result.all_signals) > 3

----------------------------------------------------------------------------
(* ClusterDetector (src/src/graph/cluster_detector.py) over the identity   *)
(* graph store (src/src/graph/identity_graph.py): the state machine of     *)
(* specification ClusterSpec.                                              *)
(* The store holds the relationships identity -[HAS_SSN | HAS_ADDRESS |    *)
(* HAS_PHONE | HAS_EMAIL | USES_DEVICE]-> element as triples               *)
(* <<identity, type, hash>>.  Link weights are in tenths.  The community   *)
(* detection of networkx is an arbitrary ordered partition of the nodes.   *)

MaxIdentities == 3   \* identities 1..MaxIdentities are added, in order
MaxMinSize == 3      \* min_size ranges over 1..MaxMinSize

\* IdentityGraph.add_identity: MERGE the element nodes and relationships
add_identity(store, identity_id, ssn_hash, address_hash, phone_hash, email_hash, device_fingerprint) ==
    store
    \cup {<<identity_id, "ssn", ssn_hash>>, <<identity_id, "address", address_hash>>,
          <<identity_id, "phone", phone_hash>>, <<identity_id, "email", email_hash>>}
    \cup (IF ~device_fingerprint.none
             THEN {<<identity_id, "device", device_fingerprint.val>>} ELSE {})

\* IdentityGraph.add_identity: MERGE the Identity node; a node that is
\* created has no cluster_id and no synthetic_score
merge_identity(props, identity_id) ==
    IF identity_id \in DOMAIN props THEN props
    ELSE props @@ (identity_id :> [cluster_id |-> OkNone, synthetic_score |-> OkNone])

\* the records <<id1, id2, element>> a sharing query returns for a link type:
\* one for each ordered pair of distinct identities and each element of
\* that type both are related to
sharing_records(link_type) ==
    LET related == {r \in gstore : r[2] = link_type}
    IN  {<<p[1][1], p[2][1], p[1][3]>> :
            p \in {q \in related \X related :
                      q[1][3] = q[2][3] /\ q[1][1] # q[2][1]}}

get_link_weight(link_type) ==
    CASE link_type = "ssn" -> 10
      [] link_type = "phone" -> 6
      [] link_type = "address" -> 4
      [] link_type = "device" -> 7
      [] link_type = "email" -> 5
      [] OTHER -> 3

\* the link types _build_identity_network queries, in its order
QueriedLinkTypes == <<"ssn", "address", "phone", "device">>

\* The graph G: its nodes, and for each edge {id1, id2} the shared_types
\* set and the weight accumulated over the records of the queries that did
\* not fail (the first record of a pair adds the edge, each later one adds
\* its type and weight to it).
build_identity_network(failed) ==
    IF gdriver = "none" THEN [nodes |-> {}, edges |-> <<>>]
    ELSE
    LET run == {t \in ToSet(QueriedLinkTypes) : t \notin failed}
        records == [t \in ToSet(QueriedLinkTypes) |->
                       IF t \in run THEN sharing_records(t) ELSE {}]
        pairs == {{r[1], r[2]} : r \in UNION {records[t] : t \in run}}
        of_pair(t, e) == {r \in records[t] : {r[1], r[2]} = e}
    IN  [nodes |-> UNION pairs,
         edges |-> [e \in pairs |->
             [shared_types |-> {t \in run : of_pair(t, e) # {}},
              weight |-> SumSeq([k \in 1..Len(QueriedLinkTypes) |->
                  get_link_weight(QueriedLinkTypes[k])
                      * Cardinality(of_pair(QueriedLinkTypes[k], e))])]]]

\* the lists of communities a community detection may return for the node
\* set: every partition of the nodes into non-empty sets, in every order
Communities(nodes) ==
    {[k \in 1..Cardinality({f[v] : v \in nodes}) |-> {v \in nodes : f[v] = k}] :
        f \in {g \in [nodes -> 1..Cardinality(nodes)] :
                  {g[v] : v \in nodes} = 1..Cardinality({g[v] : v \in nodes})}}

\* variant: SSN sharing weighted like device sharing
calculate_cluster_score_ssn_as_device(member_count, shared_elements, edge_count) ==
    Min(One,
        (IF shared_elements["ssn"] > 0 THEN Dec(15, 100) ELSE 0)
      + (IF shared_elements["phone"] > member_count THEN Dec(2, 10) ELSE 0)
      + (IF shared_elements["device"] > 0 THEN Dec(15, 100) ELSE 0)
      + (IF member_count > 1
            THEN Mul(Dec(15, 100), edge_count,
                     (member_count * (member_count - 1)) \div 2)
            ELSE 0)
      + (IF member_count >= 10 THEN Dec(1, 10)
         ELSE IF member_count >= 5 THEN Dec(5, 100)
         ELSE 0))

\* nx.density of the subgraph on member_count nodes with edge_count edges is
\* edge_count / (member_count * (member_count - 1) / 2), 0 below two nodes
calculate_cluster_score(member_count, shared_elements, edge_count) ==
    Min(One,
        (IF shared_elements["ssn"] > 0 THEN Dec(5, 10) ELSE 0)
      + (IF shared_elements["phone"] > member_count THEN Dec(2, 10) ELSE 0)
      + (IF shared_elements["device"] > 0 THEN Dec(15, 100) ELSE 0)
      + (IF member_count > 1
            THEN Mul(Dec(15, 100), edge_count,
                     (member_count * (member_count - 1)) \div 2)
            ELSE 0)
      + (IF member_count >= 10 THEN Dec(1, 10)
         ELSE IF member_count >= 5 THEN Dec(5, 100)
         ELSE 0))

\* The SyntheticCluster of a community; cluster_id i stands for "cluster_i".
\* center_identity (the first member of highest degree, in the iteration
\* order of a set) is not modelled.
analyze_cluster(G, members, cluster_id) ==
    LET inside == {e \in DOMAIN G.edges : e \subseteq members}
        shared_elements ==
            [t \in {"ssn", "address", "phone", "device"} |->
                Cardinality({e \in inside : t \in G.edges[e].shared_types})]
        member_list == SetToList(members)
        cluster_score == calculate_cluster_score(
            Len(member_list), shared_elements, Cardinality(inside))
    IN  [cluster_id |-> cluster_id,
         member_count |-> Len(member_list),
         member_identities |-> member_list,
         shared_elements |-> shared_elements,
         cluster_score |-> cluster_score,
         risk_level |->
             IF cluster_score >= Dec(8, 10) THEN "critical"
             ELSE IF cluster_score >= Dec(6, 10) THEN "high"
             ELSE IF cluster_score >= Dec(4, 10) THEN "medium"
             ELSE "low"]

\* clusters.sort(key=cluster_score, reverse=True): stable, descending
RECURSIVE sort_by_score(_)
sort_by_score(cs) ==
    IF cs = <<>> THEN <<>>
    ELSE With(sort_by_score(SubSeq(cs, 1, Len(cs) - 1)), LAMBDA sorted :
         With(Cardinality({j \in 1..Len(sorted) :
                  sorted[j].cluster_score >= cs[Len(cs)].cluster_score}),
              LAMBDA k :
             SubSeq(sorted, 1, k) \o <<cs[Len(cs)]>>
                 \o SubSeq(sorted, k + 1, Len(sorted))))

\* variant: every community is reported, whatever its size
detect_clusters_unfiltered(min_size, algorithm, G, communities) ==
    IF G.nodes = {} THEN Ok(<<>>)
    ELSE IF algorithm \notin {"louvain", "label_propagation"} THEN Raised
    ELSE Ok(sort_by_score(
             [k \in 1..Len(communities) |->
                 analyze_cluster(G, communities[k], k - 1)]))

\* detect_clusters(min_size, algorithm) from the network G it has built,
\* when the community detection returns communities: Raised for the
\* ValueError of an unknown algorithm, else the list returned
detect_clusters(min_size, algorithm, G, communities) ==
    IF G.nodes = {} THEN Ok(<<>>)
    ELSE IF algorithm \notin {"louvain", "label_propagation"} THEN Raised
    ELSE
    LET kept == SelectSeq([k \in 1..Len(communities) |-> k],
                          LAMBDA k : Cardinality(communities[k]) >= min_size)
    IN  Ok(sort_by_score(
            [j \in 1..Len(kept) |->
                analyze_cluster(G, communities[kept[j]], kept[j] - 1)]))

\* a hash no other identity has
Own(identity_id) == 100 + identity_id

\* what an added identity brings: the ring's SSN, address, phone and device;
\* the ring's SSN alone; or the ring's address, phone and device
IdentityProfiles(identity_id) ==
    {[ssn |-> 1, address |-> 1, phone |-> 1, device |-> Ok(1)],
     [ssn |-> 1, address |-> Own(identity_id), phone |-> Own(identity_id),
      device |-> OkNone],
     [ssn |-> Own(identity_id), address |-> 1, phone |-> 1, device |-> Ok(1)]}

\* a ring of identities on one SSN grows up to MaxRing members
MaxRing == 6

\* the communities drawn for a network: any ordered partition of up to
\* MaxIdentities nodes; of a larger network, all nodes in one community or
\* the first MaxIdentities nodes apart from the others
CommunitiesDrawn(nodes) ==
    IF Cardinality(nodes) <= MaxIdentities THEN Communities(nodes)
    ELSE {<<nodes>>,
          <<{v \in nodes : v > MaxIdentities}, {v \in nodes : v <= MaxIdentities}>>}

Algorithms == {"louvain", "kmeans"}
FailedQueries == {{}, {"ssn"}}

ClusterInit ==
    /\ now = Day0
    /\ redis = "none"
    /\ zIdent = EmptyStore
    /\ zSsn = EmptyStore
    /\ bureau = "none"
    /\ auGraph = FALSE
    /\ dirty = FALSE
    /\ result = NoResult
    /\ IdleCluster
    /\ IdleApi

\* ClusterDetector.connect
Connect ==
    /\ gdriver = "none"
    /\ gdriver' = "up"
    /\ UNCHANGED <<gstore, clusters, lastMinSize>>
    /\ UNCHANGED graphVars
    /\ UNCHANGED ensembleVars

\* IdentityGraph.add_identity for the next identity
AddIdentity(identity_id, profile) ==
    /\ identity_id <= MaxIdentities
    /\ identity_id = Cardinality({r[1] : r \in gstore}) + 1
    /\ gstore' = add_identity(gstore, identity_id, profile.ssn, profile.address,
                              profile.phone, Own(identity_id), profile.device)
    /\ nodeProps' = merge_identity(nodeProps, identity_id)
    /\ UNCHANGED <<gdriver, clusters, lastMinSize>>
    /\ UNCHANGED <<writeBack, committed, cached_graph, observed>>
    /\ UNCHANGED ensembleVars

\* IdentityGraph.add_identity for one more member of a ring in which every
\* identity has the ring's SSN: the ring's SSN, everything else its own
AddRingMember(identity_id) ==
    /\ identity_id > MaxIdentities
    /\ identity_id <= MaxRing
    /\ identity_id = Cardinality({r[1] : r \in gstore}) + 1
    /\ \A i \in 1..(identity_id - 1) : <<i, "ssn", 1>> \in gstore
    /\ gstore' = add_identity(gstore, identity_id, 1, Own(identity_id),
                              Own(identity_id), Own(identity_id), OkNone)
    /\ nodeProps' = merge_identity(nodeProps, identity_id)
    /\ UNCHANGED <<gdriver, clusters, lastMinSize>>
    /\ UNCHANGED <<writeBack, committed, cached_graph, observed>>
    /\ UNCHANGED ensembleVars

\* ClusterDetector.detect_clusters(min_size, algorithm), the sharing
\* queries of the link types in failed raising
DetectClusters(min_size, algorithm, failed) ==
    /\ LET G == build_identity_network(failed)
       IN  \E communities \in CommunitiesDrawn(G.nodes) :
               clusters' = detect_clusters(min_size, algorithm, G, communities)
    /\ lastMinSize' = min_size
    /\ UNCHANGED <<gstore, gdriver>>
    /\ UNCHANGED graphVars
    /\ UNCHANGED ensembleVars

ClusterNext ==
    \/ Connect
    \/ \E i \in 1..MaxIdentities : \E profile \in IdentityProfiles(i) :
           AddIdentity(i, profile)
    \/ \E i \in (MaxIdentities + 1)..MaxRing : AddRingMember(i)
    \/ \E m \in 1..MaxMinSize, a \in Algorithms, f \in FailedQueries :
           DetectClusters(m, a, f)

ClusterSpec == ClusterInit /\ [][ClusterNext]_vars

----------------------------------------------------------------------------
(* Properties of cluster detection (specification ClusterSpec)             *)

Returned == clusters.ok /\ ~clusters.none

\* C10: no cluster returned by detect_clusters has fewer than min_size
\* members, and each returned cluster's member_count is the length of its
\* member list (which names each member once).
C10_NoClusterBelowMinSize ==
    Returned =>
        \A k \in 1..Len(clusters.val) :
            /\ Len(clusters.val[k].member_identities) >= lastMinSize
            /\ clusters.val[k].member_count >= lastMinSize
            /\ clusters.val[k].member_count = Len(clusters.val[k].member_identities)
            /\ clusters.val[k].member_count
                   = Cardinality(ToSet(clusters.val[k].member_identities))

\* a run in which the filter dropped a community: three identities are
\* linked, min_size is 2, and one cluster of two members is returned
C10_Witness ==
    /\ Returned
    /\ lastMinSize = 2
    /\ Cardinality({r[1] : r \in gstore}) = 3
    /\ Len(clusters.val) = 1
    /\ clusters.val[1].member_count = 2

----------------------------------------------------------------------------
(* The identity network of ClusterDetector._build_identity_network over    *)
(* identities that share at most one element: specification NetworkSpec.   *)

LinkTypes == {"ssn", "address", "phone", "email", "device"}

\* the hash of the identity's element of a type: the shared one, 1, for the
\* type it shares, its own for every other
HashOf(identity_id, link_type, shared_type) ==
    IF link_type = shared_type THEN 1 ELSE Own(identity_id)

\* IdentityGraph.add_identity for the next identity, which has the shared
\* element of one type, or of none
AddSharer(identity_id, shared_type) ==
    /\ identity_id <= MaxIdentities
    /\ identity_id = Cardinality({r[1] : r \in gstore}) + 1
    /\ gstore' = add_identity(gstore, identity_id,
                              HashOf(identity_id, "ssn", shared_type),
                              HashOf(identity_id, "address", shared_type),
                              HashOf(identity_id, "phone", shared_type),
                              HashOf(identity_id, "email", shared_type),
                              Ok(HashOf(identity_id, "device", shared_type)))
    /\ nodeProps' = merge_identity(nodeProps, identity_id)
    /\ UNCHANGED <<gdriver, clusters, lastMinSize>>
    /\ UNCHANGED <<writeBack, committed, cached_graph, observed>>
    /\ UNCHANGED ensembleVars

\* ClusterDetector._build_identity_network, the sharing queries of the
\* link types in failed raising
BuildIdentityNetwork(failed) ==
    /\ call = NoCall
    /\ call' = [fn |-> "build_identity_network",
                store |-> gstore,
                driver |-> gdriver,
                failed |-> failed,
                G |-> build_identity_network(failed)]
    /\ UNCHANGED <<scoringVars, graphStoreVars, replay, apiVars>>

NetworkNext ==
    \/ Connect
    \/ \E i \in 1..MaxIdentities, t \in LinkTypes \cup {"none"} : AddSharer(i, t)
    \/ \E f \in FailedQueries : BuildIdentityNetwork(f)

NetworkSpec == ClusterInit /\ [][NetworkNext]_vars

\* the types of the elements two identities of a store share
SharedTypesIn(store, i, j) ==
    {t \in LinkTypes : \E h \in {r[3] : r \in store} :
        <<i, t, h>> \in store /\ <<j, t, h>> \in store}

\* C24: in the network built from a connected store whose sharing queries
\* return a record for each ordered pair, two identities that share exactly
\* one element, of type T, are joined by an edge whose weight is the link
\* weight of T (ssn 1.0, device 0.7, phone 0.6, email 0.5, address 0.4).
C24_SingleSharedElementWeight ==
    (call.fn = "build_identity_network" /\ call.driver = "up" /\ call.failed = {}) =>
        \A i \in {r[1] : r \in call.store}, j \in {r[1] : r \in call.store} :
            \A t \in LinkTypes :
                (i # j /\ SharedTypesIn(call.store, i, j) = {t}) =>
                    /\ {i, j} \in DOMAIN call.G.edges
                    /\ call.G.edges[{i, j}].weight = get_link_weight(t)

\* the same, for the types that are queried, with the weight counted once
\* for each of the two records of the pair
NetworkWeightsDoubled ==
    (call.fn = "build_identity_network" /\ call.driver = "up" /\ call.failed = {}) =>
        \A i \in {r[1] : r \in call.store}, j \in {r[1] : r \in call.store} :
            \A t \in LinkTypes :
                (i # j /\ SharedTypesIn(call.store, i, j) = {t}) =>
                    IF t = "email" THEN {i, j} \notin DOMAIN call.G.edges
                    ELSE /\ {i, j} \in DOMAIN call.G.edges
                         /\ call.G.edges[{i, j}].weight = 2 * get_link_weight(t)

\* two members of the cluster c have the same SSN in the store
MembersShareSsn(c) ==
    \E i \in ToSet(c.member_identities), j \in ToSet(c.member_identities) :
        i # j /\ \E h \in {r[3] : r \in gstore} :
                     <<i, "ssn", h>> \in gstore /\ <<j, "ssn", h>> \in gstore

SortedByScore ==
    \A k \in 1..(Len(clusters.val) - 1) :
        clusters.val[k].cluster_score >= clusters.val[k + 1].cluster_score

C21_WitnessSorted ==
    /\ Returned
    /\ Len(clusters.val) >= 2
    /\ clusters.val[1].cluster_score > clusters.val[2].cluster_score

\* members sharing an SSN in the store returned in a cluster below 0.5
C21_WitnessQueryFailed ==
    /\ Returned
    /\ \E k \in 1..Len(clusters.val) :
           /\ MembersShareSsn(clusters.val[k])
           /\ clusters.val[k].shared_elements["ssn"] = 0
           /\ clusters.val[k].cluster_score < Dec(5, 10)

----------------------------------------------------------------------------
(* GraphFeatureExtractor (src/src/graph/graph_features.py), the write-back *)
(* of run_cluster_detection (src/src/api/routes/graph.py) and the readers  *)
(* of the stored assignments: the state machine of specification GraphSpec.*)
(* Counts are plain integers; ratios and scores are in fixed point.        *)

MaxRuns == 2    \* cluster-detection runs started

\* type(r) of the relationship to an element of a type
rel_type_of(link_type) ==
    CASE link_type = "ssn" -> "HAS_SSN"
      [] link_type = "address" -> "HAS_ADDRESS"
      [] link_type = "phone" -> "HAS_PHONE"
      [] link_type = "email" -> "HAS_EMAIL"
      [] link_type = "device" -> "USES_DEVICE"
      [] OTHER -> "OTHER"

ElementTypes == {"ssn", "address", "phone", "email", "device"}

\* the graph build_graph builds from the store: a node for each identity of a
\* record, holding synthetic_score (0.0 for a null score) and nothing else,
\* and an edge for each pair of a record, holding the rel_types of its records
graph_of_store ==
    LET records == UNION {{<<r[1], r[2], rel_type_of(t)>> : r \in sharing_records(t)} :
                             t \in ElementTypes}
        pairs == {{r[1], r[2]} : r \in records}
    IN  [nodes |-> [n \in UNION pairs |->
                       [synthetic_score |->
                           IF nodeProps[n].synthetic_score.none THEN 0
                           ELSE nodeProps[n].synthetic_score.val]],
         edges |-> [e \in pairs |->
                       [rel_types |-> {r[3] : r \in {q \in records : {q[1], q[2]} = e}}]]]

EmptyGraph == [nodes |-> <<>>, edges |-> <<>>]

\* build_graph: the cached graph if there is one; an empty graph, which is
\* not cached, without a driver; Raised when the query raises; else the
\* graph of the store, which is cached
build_graph ==
    IF ~cached_graph.none THEN Ok(cached_graph.val)
    ELSE IF gdriver = "none" THEN Ok(EmptyGraph)
    ELSE IF gdriver = "down" THEN Raised
    ELSE Ok(graph_of_store)

neighbors(G, v) == {u \in DOMAIN G.nodes : {u, v} \in DOMAIN G.edges}

RECURSIVE node_connected_component(_, _)
node_connected_component(G, seen) ==
    LET next == seen \cup UNION {neighbors(G, v) : v \in seen}
    IN  IF next = seen THEN seen ELSE node_connected_component(G, next)

\* nx.density of the subgraph induced by a node set
density(G, component) ==
    LET n == Cardinality(component)
        m == Cardinality({e \in DOMAIN G.edges : e \subseteq component})
    IN  IF n <= 1 THEN 0 ELSE Mul(One, 2 * m, n * (n - 1))

\* nx.clustering(G, v): the fraction of pairs of neighbours that are linked
clustering(G, v) ==
    LET nb == neighbors(G, v)
        d == Cardinality(nb)
        t == Cardinality({e \in DOMAIN G.edges : e \subseteq nb})
    IN  IF d < 2 THEN 0 ELSE Mul(One, 2 * t, d * (d - 1))

type_mapping(rel_type) ==
    CASE rel_type = "HAS_SSN" -> "ssn"
      [] rel_type = "HAS_ADDRESS" -> "address"
      [] rel_type = "HAS_PHONE" -> "phone"
      [] rel_type = "HAS_EMAIL" -> "email"
      [] rel_type = "USES_DEVICE" -> "device"
      [] OTHER -> None

count_shared_elements(G, identity_id) ==
    [t \in ElementTypes |->
        Cardinality({n \in neighbors(G, identity_id) :
            \E rt \in G.edges[{identity_id, n}].rel_types : type_mapping(rt) = t})]

get_cluster_metrics(G, identity_id) ==
    LET component == node_connected_component(G, {identity_id})
    IN  [cluster_size |-> Cardinality(component),
         cluster_density |-> density(G, component)]

\* the value node_attrs.get("cluster_id") reads from a node of G
node_get_cluster_id(node_attrs) ==
    IF "cluster_id" \in DOMAIN node_attrs THEN node_attrs["cluster_id"] ELSE OkNone

\* the GraphFeatures record from its 17 values; feature_vector holds the 15
\* numeric ones in the order of the source
GraphFeaturesOf(identity_id, v, cluster_id) ==
    [identity_id |-> identity_id,
     degree |-> v[1], weighted_degree |-> v[2],
     clustering_coefficient |-> v[3],
     betweenness_centrality |-> v[4], pagerank |-> v[5],
     shared_ssn_count |-> v[6], shared_address_count |-> v[7],
     shared_phone_count |-> v[8], shared_email_count |-> v[9],
     shared_device_count |-> v[10],
     cluster_id |-> cluster_id,
     cluster_size |-> v[11], cluster_density |-> v[12],
     neighbor_avg_synthetic_score |-> v[13],
     neighbor_max_synthetic_score |-> v[14],
     high_risk_neighbor_count |-> v[15],
     feature_vector |-> v]

\* variant: the baseline taken from the zero vector, cluster_size included
empty_features_from_vector(identity_id) ==
    GraphFeaturesOf(identity_id, [k \in 1..15 |-> 0], OkNone)

\* _empty_features: np.zeros(15), cluster_id None, cluster_size 1
empty_features(identity_id) ==
    [GraphFeaturesOf(identity_id, [k \in 1..15 |-> 0], OkNone)
        EXCEPT !.cluster_size = 1]

\* The betweenness centrality and the PageRank of a node are networkx's
\* values for it, <<betweenness, pagerank>>: betweenness anything in
\* [0, 1], PageRank positive.
NxMetrics == {<<0, Dec(1, 2)>>, <<One, Dec(1, 4)>>}

\* extract_features for an identity in G, networkx reporting betweenness
\* and pagerank for it
features_in_graph(G, identity_id, betweenness, pagerank) ==
    LET nb == SetToList(neighbors(G, identity_id))
        shared_counts == count_shared_elements(G, identity_id)
        metrics == get_cluster_metrics(G, identity_id)
        neighbor_scores == [k \in 1..Len(nb) |-> G.nodes[nb[k]].synthetic_score]
    IN  GraphFeaturesOf(identity_id,
            << Len(nb),
               SumSeq([k \in 1..Len(nb) |->
                   Cardinality(G.edges[{identity_id, nb[k]}].rel_types)]),
               clustering(G, identity_id),
               betweenness,
               pagerank,
               shared_counts["ssn"], shared_counts["address"],
               shared_counts["phone"], shared_counts["email"],
               shared_counts["device"],
               metrics.cluster_size, metrics.cluster_density,
               IF nb = <<>> THEN 0 ELSE SumSeq(neighbor_scores) \div Len(nb),
               IF nb = <<>> THEN 0 ELSE MaxSeq(neighbor_scores),
               Cardinality({k \in 1..Len(nb) : neighbor_scores[k] > Dec(5, 10)}) >>,
            node_get_cluster_id(G.nodes[identity_id]))

\* extract_features(identity_id) on the graph build_graph returned
extract_features(G, identity_id, betweenness, pagerank) ==
    IF identity_id \notin DOMAIN G.nodes THEN empty_features(identity_id)
    ELSE features_in_graph(G, identity_id, betweenness, pagerank)

\* ClusterDetector.get_cluster_members: the identities whose stored
\* cluster_id is the one asked for; Raised when the query raises
get_cluster_members(cluster_id) ==
    IF gdriver = "none" THEN Ok({})
    ELSE IF gdriver = "down" THEN Raised
    ELSE Ok({i \in DOMAIN nodeProps : nodeProps[i].cluster_id = Ok(cluster_id)})

\* the assignments the loop of run_cluster_detection makes, in its order:
\* for each cluster, for each member, <<member_id, cluster_id>>
RECURSIVE assignments_of(_)
assignments_of(cs) ==
    IF cs = <<>> THEN <<>>
    ELSE [k \in 1..Len(cs[1].member_identities) |->
             <<cs[1].member_identities[k], cs[1].cluster_id>>]
         \o assignments_of(Tail(cs))

\* IdentityGraph.assign_cluster: SET i.cluster_id on the matched node
assign_cluster(props, identity_id, cluster_id) ==
    IF identity_id \in DOMAIN props
        THEN [props EXCEPT ![identity_id].cluster_id = Ok(cluster_id)]
        ELSE props

\* the stored cluster_id of each identity
stored_assignment(props) == [i \in DOMAIN props |-> props[i].cluster_id]

\* the cluster of the list cs that has identity_id as a member, if any
cluster_of(cs, identity_id) ==
    LET ks == {k \in 1..Len(cs) : InList(identity_id, cs[k].member_identities)}
    IN  IF ks = {} THEN OkNone ELSE Ok(cs[CHOOSE k \in ks : TRUE])

ApiAlgorithms == {"louvain", "label_propagation"}
ClusterIds == 0..(MaxIdentities - 1)

\* what an identity added to the graph brings: the ring's SSN or, after
\* the first identity, nothing anyone else has
GraphProfiles(identity_id) ==
    {[ssn |-> 1, address |-> Own(identity_id), phone |-> Own(identity_id),
      device |-> OkNone]}
    \cup (IF identity_id = 1 THEN {}
          ELSE {[ssn |-> Own(identity_id), address |-> Own(identity_id),
                 phone |-> Own(identity_id), device |-> OkNone]})

GraphInit ==
    /\ now = Day0
    /\ redis = "none"
    /\ zIdent = EmptyStore
    /\ zSsn = EmptyStore
    /\ bureau = "none"
    /\ auGraph = FALSE
    /\ dirty = FALSE
    /\ result = NoResult
    /\ gstore = {}
    /\ gdriver \in {"none", "up", "down"}
    /\ clusters = OkNone
    /\ lastMinSize = 0
    /\ nodeProps = <<>>
    /\ writeBack = NoWriteBack
    /\ committed = <<>>
    /\ cached_graph = OkNone
    /\ observed = NoRead
    /\ replay = [w \in {"a", "b"} |-> NoUses]
    /\ call = NoCall
    /\ IdleApi

\* the graph database, unreachable since the start, becomes reachable
StoreRecover ==
    /\ gdriver = "down"
    /\ gdriver' = "up"
    /\ UNCHANGED <<gstore, clusters, lastMinSize, graphVars>>
    /\ UNCHANGED ensembleVars

\* run_cluster_detection up to its write-back loop: detect_clusters, every
\* sharing query raising when the database is unreachable.  With nothing to
\* write the run is complete.
StartRun(min_size, algorithm) ==
    /\ ~writeBack.active
    /\ writeBack.runs < MaxRuns
    /\ LET G == build_identity_network(
                    IF gdriver = "down" THEN ToSet(QueriedLinkTypes) ELSE {})
       IN  \E communities \in Communities(G.nodes) :
             With(detect_clusters(min_size, algorithm, G, communities), LAMBDA cs :
               /\ clusters' = cs
               /\ writeBack' = [active |-> assignments_of(cs.val) # <<>>,
                                todo |-> assignments_of(cs.val),
                                runs |-> writeBack.runs + 1]
               /\ committed' = IF assignments_of(cs.val) # <<>> THEN committed
                               ELSE stored_assignment(nodeProps))
    /\ lastMinSize' = min_size
    /\ UNCHANGED <<gstore, gdriver, nodeProps, cached_graph, observed>>
    /\ UNCHANGED ensembleVars

\* one turn of the write-back loop: assign_cluster in a transaction of its
\* own, its exception logged and dropped; after the last one the run is
\* complete
WriteBackStep ==
    /\ writeBack.active
    /\ nodeProps' = IF gdriver = "up"
                       THEN assign_cluster(nodeProps, writeBack.todo[1][1],
                                           writeBack.todo[1][2])
                       ELSE nodeProps
    /\ writeBack' = [writeBack EXCEPT !.todo = Tail(@),
                                      !.active = Tail(writeBack.todo) # <<>>]
    /\ committed' = IF Tail(writeBack.todo) # <<>> THEN committed
                    ELSE stored_assignment(nodeProps')
    /\ UNCHANGED <<gstore, gdriver, clusters, lastMinSize, cached_graph, observed>>
    /\ UNCHANGED ensembleVars

\* a request that calls GraphFeatureExtractor.extract_features(identity_id)
ExtractFeatures(identity_id) ==
    /\ With(build_graph, LAMBDA G :
         /\ cached_graph' = IF G.ok /\ gdriver = "up" THEN G ELSE cached_graph
         /\ \E nx \in NxMetrics :
              observed' =
                [kind |-> "features",
                 identity_id |-> identity_id,
                 during |-> writeBack.active,
                 built |-> G.ok,
                 in_graph |-> G.ok /\ identity_id \in DOMAIN G.val.nodes,
                 latest |-> IF clusters.ok /\ ~clusters.none
                               THEN cluster_of(clusters.val, identity_id)
                               ELSE OkNone,
                 out |-> IF G.ok
                            THEN Ok(extract_features(G.val, identity_id,
                                                     nx[1], nx[2]))
                            ELSE Raised])
    /\ UNCHANGED <<gstore, gdriver, clusters, lastMinSize>>
    /\ UNCHANGED <<nodeProps, writeBack, committed>>
    /\ UNCHANGED ensembleVars

\* a request that calls ClusterDetector.get_cluster_members(cluster_id)
GetClusterMembers(cluster_id) ==
    /\ observed' =
         [kind |-> "members",
          cluster_id |-> cluster_id,
          during |-> writeBack.active,
          committed |-> {i \in DOMAIN committed : committed[i] = Ok(cluster_id)},
          members |-> get_cluster_members(cluster_id)]
    /\ UNCHANGED <<gstore, gdriver, clusters, lastMinSize>>
    /\ UNCHANGED <<nodeProps, writeBack, committed, cached_graph>>
    /\ UNCHANGED ensembleVars

GraphNext ==
    \/ StoreRecover
    \/ \E i \in 1..MaxIdentities : \E profile \in GraphProfiles(i) :
           AddIdentity(i, profile)
    \/ \E m \in 2..MaxMinSize, a \in ApiAlgorithms : StartRun(m, a)
    \/ WriteBackStep
    \/ \E i \in 1..MaxIdentities : ExtractFeatures(i)
    \/ \E c \in ClusterIds : GetClusterMembers(c)

GraphSpec == GraphInit /\ [][GraphNext]_vars

----------------------------------------------------------------------------
(* Properties of the graph features and the write-back (GraphSpec)         *)

FeaturesRead == observed.kind = "features"
MembersRead == observed.kind = "members"

\* C11: when no run is writing back, so that the latest run has written all
\* its assignments, extract_features for a member of a cluster that run
\* returned reports that cluster's cluster_id, and a cluster_size equal to
\* the cluster's member count.
C11_FeaturesReflectLatestRun ==
    (FeaturesRead /\ ~observed.during /\ ~observed.latest.none) =>
        /\ observed.out.ok
        /\ observed.out.val.cluster_id = Ok(observed.latest.val.cluster_id)
        /\ observed.out.val.cluster_size = observed.latest.val.member_count

\* C12: a get_cluster_members read made while a run is in its write-back
\* loop returns what the store held when the last run completed: the
\* committed assignments, none of the run in progress.
C12_ReadersSeeCommittedAssignments ==
    (MembersRead /\ observed.during /\ observed.members.ok) =>
        observed.members.val = observed.committed

----------------------------------------------------------------------------
(* The velocity store under writers (VelocityAnalyzer.record_element_use): *)
(* the state machine of specification VelocityStoreSpec.  Two stores of    *)
(* the same element start empty and each receives record_element_use calls *)
(* in an order of its own; uses holds the (identity, ssn, timestamp) uses  *)
(* a store has been given.                                                 *)

MaxCalls == 3    \* record_element_use calls made on one store

\* HSETNX key field value
hsetnx(h, field, value) == IF field \in DOMAIN h THEN h ELSE h @@ (field :> value)

\* HSET key field value
hset(h, field, value) == [f \in (DOMAIN h) \cup {field} |-> IF f = field THEN value ELSE h[f]]

\* the pipeline of record_element_use on the three keys of the element;
\* timestamp.timestamp() and timestamp.isoformat() both keep the timestamp
record_element_use(store, identity_hash, ssn_hash, timestamp) ==
    [store EXCEPT
        !.identities = zadd(@, identity_hash, timestamp),
        !.ssns = zadd(@, ssn_hash, timestamp),
        !.meta = hset(hsetnx(@, "first_seen", timestamp), "last_seen", timestamp)]

\* what _get_element_velocity reads of the element at the time now: the
\* windowed counts, first_seen and last_seen
element_state(store) ==
    [unique_identities_30d |-> zcount(store.identities, now - WINDOW_30D),
     unique_identities_90d |-> zcount(store.identities, now - WINDOW_90D),
     unique_identities_180d |-> zcount(store.identities, now - WINDOW_180D),
     unique_ssns_30d |-> zcount(store.ssns, now - WINDOW_30D),
     unique_ssns_90d |-> zcount(store.ssns, now - WINDOW_90D),
     unique_ssns_180d |-> zcount(store.ssns, now - WINDOW_180D),
     first_seen |-> IF "first_seen" \in DOMAIN store.meta
                       THEN Ok(store.meta["first_seen"]) ELSE OkNone,
     last_seen |-> IF "last_seen" \in DOMAIN store.meta
                      THEN Ok(store.meta["last_seen"]) ELSE OkNone]

\* the uses <<identity_hash, ssn_hash, timestamp>> the writers record
ElementUses ==
    {<<1, 1, Day0 - 40>>, <<1, 1, Day0 - 5>>, <<2, 2, Day0 - 5>>, <<3, 2, Day0 - 1>>}

VelocityStoreInit ==
    /\ now = Day0
    /\ redis = "up"
    /\ zIdent = EmptyStore
    /\ zSsn = EmptyStore
    /\ bureau = "none"
    /\ auGraph = FALSE
    /\ dirty = FALSE
    /\ result = NoResult
    /\ IdleCluster
    /\ IdleApi

\* a writer's record_element_use call reaches store w
WriterRecords(w, identity_hash, ssn_hash, timestamp) ==
    /\ replay[w].calls < MaxCalls
    /\ replay' = [replay EXCEPT ![w] =
          [record_element_use(@, identity_hash, ssn_hash, timestamp) EXCEPT
              !.uses = @ \cup {<<identity_hash, ssn_hash, timestamp>>},
              !.calls = @ + 1]]
    /\ UNCHANGED <<scoringVars, graphStoreVars, call, apiVars>>

VelocityStoreNext ==
    \E w \in {"a", "b"}, u \in ElementUses : WriterRecords(w, u[1], u[2], u[3])

VelocityStoreSpec == VelocityStoreInit /\ [][VelocityStoreNext]_vars

\* C13: two stores of an element that were given the same set of uses, in
\* whatever order and with whatever repeats, hold the same state of the
\* element: the same windowed identity and SSN counts, the same first_seen
\* and the same last_seen.
C13_StoreDependsOnUsesOnly ==
    replay["a"].uses = replay["b"].uses =>
        element_state(replay["a"]) = element_state(replay["b"])

----------------------------------------------------------------------------
(* The detectors' scoring functions applied to arguments of their domain:  *)
(* the state machine of specification DetectorSpec.  A behaviour makes one *)
(* call; call holds its function, its arguments and its value.             *)

MaxCount == 21   \* unique_identities_180d ranges over 0..MaxCount
MaxSsns == 6     \* unique_ssns_180d ranges over 0..MaxSsns

ElementTypeNames == {"address", "phone", "email", "device", "ip"}

\* the ElementVelocity of an element with the given counts
ElementVelocityOf(n30, n180, ssns) ==
    [empty_element_velocity EXCEPT
        !.unique_identities_30d = n30, !.unique_identities_90d = n30,
        !.unique_identities_180d = n180,
        !.unique_ssns_30d = 0, !.unique_ssns_90d = 0, !.unique_ssns_180d = ssns]

DetectorInit ==
    /\ now = Day0
    /\ redis = "none"
    /\ zIdent = EmptyStore
    /\ zSsn = EmptyStore
    /\ bureau = "none"
    /\ auGraph = FALSE
    /\ dirty = FALSE
    /\ result = NoResult
    /\ IdleCluster
    /\ IdleApi

\* VelocityAnalyzer._calculate_element_score for an element type at two
\* 180-day identity counts n1 <= n2, the 30-day identity count and the
\* 180-day SSN count being the same
CalculateElementScore ==
    /\ call = NoCall
    /\ \E element_type \in ElementTypeNames, ssns \in 0..MaxSsns, n2 \in 0..MaxCount :
       \E n1 \in 0..n2 : \E n30 \in 0..n1 :
         call' = [fn |-> "calculate_element_score",
                  element_type |-> element_type,
                  unique_identities_30d |-> n30,
                  unique_ssns_180d |-> ssns,
                  n1 |-> n1,
                  n2 |-> n2,
                  score1 |-> calculate_element_score(
                                 element_type, ElementVelocityOf(n30, n1, ssns)),
                  score2 |-> calculate_element_score(
                                 element_type, ElementVelocityOf(n30, n2, ssns))]
    /\ UNCHANGED <<scoringVars, graphStoreVars, replay, apiVars>>

\* the threshold settings: the defaults, and each threshold moved
ThresholdSettings ==
    {[high_risk_threshold |-> h, medium_risk_threshold |-> m, review_threshold |-> r] :
        h \in {Dec(70, 100), Dec(80, 100), Dec(95, 100)},
        m \in {Dec(50, 100), Dec(60, 100)},
        r \in {Dec(20, 100), Dec(30, 100)}}

\* the final scores: the hundredths of [0, 1]
FinalScores == {Dec(k, 100) : k \in 0..100}

\* the risk tiering of SyntheticScorer.score on a final score, under
\* threshold settings
TierFinalScore ==
    /\ call = NoCall
    /\ \E final_score \in FinalScores, weights \in ThresholdSettings :
         call' = [fn |-> "risk_level",
                  final_score |-> final_score,
                  weights |-> weights,
                  risk_level |-> risk_level_under(final_score, weights)]
    /\ UNCHANGED <<scoringVars, graphStoreVars, replay, apiVars>>

\* the flags _score_ssn_signals reads
SsnFlags ==
    {"ssn_dob_mismatch", "death_master_match", "invalid_ssn", "itin_as_ssn",
     "multiple_ssns"}

\* SyntheticScorer.score on SSN signals with any of the flags set, the
\* graph features varied, the device bound or not, and the velocity and
\* credit signals empty
ScoreSynthetic ==
    /\ call = NoCall
    /\ \E ssn_signals \in SUBSET SsnFlags, graph_features \in GraphFeatureDicts,
          weak_binding \in BOOLEAN :
         call' = [fn |-> "score",
                  ssn_signals |-> ssn_signals,
                  result |-> SyntheticScorer_score(
                      ssn_signals, graph_features,
                      [address_velocity_score |-> 0, phone_velocity_score |-> 0,
                       email_velocity_score |-> 0],
                      [is_thin_file |-> FALSE, file_age_mismatch |-> FALSE,
                       rapid_credit_building |-> FALSE, au_abuse_pattern |-> FALSE],
                      [weak_binding |-> weak_binding, shared_device_count |-> 0,
                       known_fraud_device |-> FALSE, emulator_detected |-> FALSE])]
    /\ UNCHANGED <<scoringVars, graphStoreVars, replay, apiVars>>

\* the most AU accounts of one identity
MaxAuAccounts == 8

\* AU accounts: one added long ago with a low limit on an old account, one
\* added recently, and one added recently with a high limit on a new account
SettledAu ==
    [added_days_ago |-> 400, credit_limit |-> 5000, account_age_months |-> 24,
     primary_holder_relationship |-> None]
RecentAu == [SettledAu EXCEPT !.added_days_ago = 30]
HotAu ==
    [added_days_ago |-> 30, credit_limit |-> 15000, account_age_months |-> 0,
     primary_holder_relationship |-> None]

\* the list of hot recent and settled accounts, in that order
AuAccountsOf(hot, recent, settled) ==
    [k \in 1..(hot + recent + settled) |->
        IF k <= hot THEN HotAu ELSE IF k <= hot + recent THEN RecentAu ELSE SettledAu]

\* the steps of AuthorizedUserDetector.analyze after the accounts and the
\* unrelated count are known: indicators, probability, risk level
AnalyzeAuAccounts ==
    /\ call = NoCall
    /\ \E au_count \in 0..MaxAuAccounts :
       \E hot \in 0..au_count, unrelated_count \in 0..au_count :
       \E recent \in 0..(au_count - hot) :
         LET au_accounts == AuAccountsOf(hot, recent, au_count - hot - recent)
             indicators == identify_abuse_indicators(au_accounts, au_count,
                                                     unrelated_count)
             abuse_prob == calculate_abuse_probability(au_count, unrelated_count,
                                                       indicators)
         IN  call' = [fn |-> "au_analyze",
                      au_accounts |-> au_accounts,
                      au_count |-> au_count,
                      unrelated_count |-> unrelated_count,
                      abuse_indicators |-> indicators,
                      abuse_probability |-> abuse_prob,
                      risk_level |-> au_risk_level(abuse_prob, indicators)]
    /\ UNCHANGED <<scoringVars, graphStoreVars, replay, apiVars>>

\* twelve months at lo up to month at, and at hi from month at on
Step12(lo, hi, at) == [k \in 1..12 |-> IF k < at THEN lo ELSE hi]

\* the months a one-step series changes at: the second, the seventh, the last
StepMonths == {2, 7, 12}

\* twelve monthly balances rising monotonically from 1000 to 6500: by 500 a
\* month, or in one step
RisingBalances == {Seq12(1000, 500)} \cup {Step12(1000, 6500, at) : at \in StepMonths}

\* twelve monthly payments declining monotonically from 500 to 170: by 30 a
\* month, or in one step
FallingPayments == {Seq12(500, -30)} \cup {Step12(500, 170, at) : at \in StepMonths}

\* utilization rates in percent: none reported, flat at 30, rising from 30
\* by 6 a month
UtilizationSeries == {<<>>, Seq12(30, 0), Seq12(30, 6)}

\* cash advances: none reported, or 500 in each of the last four months
CashAdvanceSeries == {<<>>, Step12(0, 500, 9)}

\* BustOutPredictor.predict, no trained model loaded, on a 12-month credit
\* sequence with rising balances and falling payments
PredictBustOut ==
    /\ call = NoCall
    /\ \E monthly_balances \in RisingBalances, monthly_payments \in FallingPayments,
          utilization_rates \in UtilizationSeries,
          cash_advance_amounts \in CashAdvanceSeries,
          months_on_books \in {6, 12, 36}, synthetic_score \in {0, Dec(8, 10)} :
         LET credit_sequence ==
                 [monthly_balances |-> monthly_balances,
                  monthly_payments |-> monthly_payments,
                  utilization_rates |-> utilization_rates,
                  cash_advance_amounts |-> cash_advance_amounts,
                  months_on_books |-> months_on_books]
         IN  call' = [fn |-> "predict",
                      credit_sequence |-> credit_sequence,
                      synthetic_score |-> synthetic_score,
                      prediction |-> BustOutPredictor_predict(credit_sequence,
                                                              synthetic_score)]
    /\ UNCHANGED <<scoringVars, graphStoreVars, replay, apiVars>>

\* the most tradelines of a credit file
MaxTradelines == 6

\* the file ages the bureau reports, in months: none, or a new, young,
\* grown or old file
FileAges == {OkNone, Ok(0), Ok(12), Ok(60), Ok(240)}

\* the claimed ages, in days: 17, 25, 35, a day over 35, and 50 years
ClaimedAges == {17 * 365, 25 * 365, 35 * 365, 35 * 365 + 1, 50 * 365}

\* CreditBehaviorAnalyzer.analyze once the bureau has answered: the thin
\* file test, the AU ratio, the anomalies and the behavior score
AnalyzeCreditBehavior ==
    /\ call = NoCall
    /\ \E num_tradelines \in 0..MaxTradelines, file_age_months \in FileAges,
          claimed_age_days \in ClaimedAges :
       \E au_accounts \in 0..num_tradelines :
         call' = [fn |-> "credit_analyze",
                  num_tradelines |-> num_tradelines,
                  au_accounts |-> au_accounts,
                  file_age_months |-> file_age_months,
                  claimed_age_days |-> claimed_age_days,
                  analysis |-> credit_profile("ssn", claimed_age_days, file_age_months,
                                              num_tradelines, au_accounts)]
    /\ UNCHANGED <<scoringVars, graphStoreVars, replay, apiVars>>

\* _calculate_element_score with the element's threshold as configured in
\* VelocitySettings: Raised for the ZeroDivisionError of
\* unique_identities_180d / threshold
element_score_at(threshold, velocity) ==
    LET n == velocity.unique_identities_180d
        base0 == IF n <= threshold
                    THEN Mul(Dec(3, 10), n, threshold)
                    ELSE LET excess == Mul(One, Min(n - threshold, 3 * threshold),
                                           threshold)
                         IN Dec(3, 10) + Mul(excess, 233, 1000)
        base1 == IF velocity.unique_ssns_180d > 1
                    THEN base0 + Min(Dec(2, 10),
                                     (velocity.unique_ssns_180d - 1) * Dec(5, 100))
                    ELSE base0
        base2 == IF n > 0 /\ 2 * velocity.unique_identities_30d > n
                    THEN Mul(base1, 12, 10)
                    ELSE base1
    IN  IF n <= 1 THEN Ok(0)
        ELSE IF threshold = 0 THEN Raised
        ELSE Ok(Min(One, base2))

\* the most identities on an element scored under a configured threshold
MaxScored == 4

\* _calculate_element_score under a configured threshold: the default of
\* the element type, one, or zero
ScoreElementAtThreshold ==
    /\ call = NoCall
    /\ \E element_type \in {"address", "phone", "email"},
          unique_identities_180d \in 0..MaxScored, unique_ssns_180d \in 0..2 :
       \E threshold \in {0, 1, threshold_of(element_type)},
          unique_identities_30d \in 0..unique_identities_180d :
         LET velocity == ElementVelocityOf(unique_identities_30d,
                                           unique_identities_180d, unique_ssns_180d)
         IN  call' = [fn |-> "element_score_at",
                      element_type |-> element_type,
                      threshold |-> threshold,
                      velocity |-> velocity,
                      by_default |-> calculate_element_score(element_type, velocity),
                      outcome |-> element_score_at(threshold, velocity)]
    /\ UNCHANGED <<scoringVars, graphStoreVars, replay, apiVars>>

MinSeq(xs) == CHOOSE m \in ToSet(xs) : \A y \in ToSet(xs) : y >= m

\* features["min_payment_ratio"] of _extract_sequence_features: absent
\* (OkNone) below three payments
min_payment_ratio(payments) ==
    IF Len(payments) < 3 THEN OkNone
    ELSE IF MaxSeq(payments) > 0
        THEN Ok(Mul(One, MinSeq(payments), MaxSeq(payments)))
        ELSE Ok(0)

\* the payment feature of _extract_sequence_features on three payments of
\* 0, 100 or 200
ExtractPaymentRatio ==
    /\ call = NoCall
    /\ \E monthly_payments \in [1..3 -> {0, 100, 200}] :
         call' = [fn |-> "min_payment_ratio",
                  monthly_payments |-> monthly_payments,
                  outcome |-> min_payment_ratio(monthly_payments)]
    /\ UNCHANGED <<scoringVars, graphStoreVars, replay, apiVars>>

DetectorNext ==
    \/ CalculateElementScore
    \/ ScoreElementAtThreshold
    \/ ExtractPaymentRatio
    \/ TierFinalScore
    \/ ScoreSynthetic
    \/ AnalyzeAuAccounts
    \/ PredictBustOut
    \/ AnalyzeCreditBehavior

DetectorSpec == DetectorInit /\ [][DetectorNext]_vars

----------------------------------------------------------------------------
(* Properties of the scoring functions (specification DetectorSpec)        *)

ElementScored == call.fn = "calculate_element_score"

\* more than half of the 180-day identities were seen in the last 30 days
recency_spike(n30, n180) == n180 > 0 /\ 2 * n30 > n180

\* C14 as stated: with the element type, the 30-day identity count and the
\* 180-day SSN count fixed, a larger unique_identities_180d never scores
\* lower.
C14_ScoreMonotonicInIdentities ==
    ElementScored => call.score1 <= call.score2

\* C14 amended: with the element type, the 30-day identity count and the
\* 180-day SSN count fixed, a larger unique_identities_180d never scores
\* lower when the recency multiplier applies to both counts or to neither.
C14_ScoreMonotonicAtSameRecency ==
    (ElementScored
        /\ recency_spike(call.unique_identities_30d, call.n1)
             = recency_spike(call.unique_identities_30d, call.n2))
    => call.score1 <= call.score2

\* two counts above the threshold, both with the recency multiplier, the
\* larger scoring strictly higher and below the cap
C14_Witness ==
    /\ ElementScored
    /\ call.element_type = "address"
    /\ call.n1 > address_max_identities_6mo
    /\ call.n1 < call.n2
    /\ recency_spike(call.unique_identities_30d, call.n1)
    /\ recency_spike(call.unique_identities_30d, call.n2)
    /\ call.unique_ssns_180d > 1
    /\ call.score1 < call.score2
    /\ call.score2 < One

\* C15: under every threshold setting a final score of 0.9 or more is
\* critical; below that, high from the high threshold on, medium from the
\* medium threshold on, low from the review threshold on, and minimal
\* otherwise.
C15_TiersOfFinalScore ==
    call.fn = "risk_level" =>
        call.risk_level =
            IF call.final_score >= Dec(9, 10) THEN "critical"
            ELSE IF call.final_score >= call.weights.high_risk_threshold THEN "high"
            ELSE IF call.final_score >= call.weights.medium_risk_threshold THEN "medium"
            ELSE IF call.final_score >= call.weights.review_threshold THEN "low"
            ELSE "minimal"

\* C17: whenever the SSN signals passed to SyntheticScorer.score have
\* ssn_dob_mismatch set, alone or with other flags, SSN_DOB_MISMATCH is among
\* the triggered signals and the SSN component score lies in [0.6, 1.0].
C17_DobMismatchTriggersAndScores ==
    (call.fn = "score" /\ "ssn_dob_mismatch" \in call.ssn_signals) =>
        /\ InList("SSN_DOB_MISMATCH", call.result.triggered_signals)
        /\ call.result.component_scores.ssn >= Dec(6, 10)
        /\ call.result.component_scores.ssn <= One

\* the mismatch together with a death master match, whose contributions sum
\* to 1.4 and are capped at 1.0
C17_Witness ==
    /\ call.fn = "score"
    /\ call.ssn_signals = {"ssn_dob_mismatch", "death_master_match"}
    /\ call.result.component_scores.ssn = One
    /\ InList("SSN_DOB_MISMATCH", call.result.triggered_signals)

\* the mismatch alone scores exactly 0.6
C17_WitnessAlone ==
    /\ call.fn = "score"
    /\ call.ssn_signals = {"ssn_dob_mismatch"}
    /\ call.result.component_scores.ssn = Dec(6, 10)

\* C18: the per-element score saturates at four times the threshold: with
\* unique_identities_180d >= 4 x threshold it lies in [0.999, 1.0] whatever
\* the SSN count and the 30-day count; with unique_identities_180d <= 1 it
\* is 0.0.
C18_SaturatesAtFourTimesThreshold ==
    ElementScored =>
        /\ call.n2 >= 4 * threshold_of(call.element_type) =>
               (call.score2 >= Dec(999, 1000) /\ call.score2 <= One)
        /\ call.n1 >= 4 * threshold_of(call.element_type) =>
               (call.score1 >= Dec(999, 1000) /\ call.score1 <= One)
        /\ call.n2 <= 1 => call.score2 = 0
        /\ call.n1 <= 1 => call.score1 = 0

\* twenty identities on an address, one SSN, no recency spike: exactly
\* 0.3 + 3 * 0.233; and a single identity on several SSNs within the last
\* 30 days scoring nothing
C18_Witness ==
    /\ ElementScored
    /\ call.element_type = "address"
    /\ call.n2 = 20
    /\ call.unique_ssns_180d <= 1
    /\ ~recency_spike(call.unique_identities_30d, call.n2)
    /\ call.score2 = Dec(999, 1000)
    /\ call.n1 = 1
    /\ call.unique_identities_30d = 1
    /\ call.score1 = 0

\* twelve identities on a phone, on six SSNs and within the last 30 days:
\* capped at 1.0
C18_WitnessCapped ==
    /\ ElementScored
    /\ call.element_type = "phone"
    /\ call.n2 = 12
    /\ call.unique_ssns_180d = 6
    /\ recency_spike(call.unique_identities_30d, call.n2)
    /\ call.score2 = One

\* C19: in the authorized-user detector, six or more AU accounts give the
\* indicator EXCESSIVE_AU_ACCOUNTS, an unrelated ratio above 0.7 gives
\* MOSTLY_UNRELATED_AU, and the risk level is critical exactly when the
\* abuse probability is at least 0.8 or EXCESSIVE_AU_ACCOUNTS is present,
\* and otherwise high, medium, low or minimal by the breakpoints 0.6, 0.4
\* and 0.2.
C19_AuIndicatorsAndRiskLevel ==
    call.fn = "au_analyze" =>
        LET excessive == InList("EXCESSIVE_AU_ACCOUNTS", call.abuse_indicators)
            p == call.abuse_probability
        IN  /\ call.au_count >= 6 => excessive
            /\ (call.au_count > 0 /\ 10 * call.unrelated_count > 7 * call.au_count)
                   => InList("MOSTLY_UNRELATED_AU", call.abuse_indicators)
            /\ call.risk_level = "critical" <=> (p >= Dec(8, 10) \/ excessive)
            /\ call.risk_level # "critical" =>
                   call.risk_level =
                       IF p >= Dec(6, 10) THEN "high"
                       ELSE IF p >= Dec(4, 10) THEN "medium"
                       ELSE IF p >= Dec(2, 10) THEN "low"
                       ELSE "minimal"

\* seven AU accounts with six unrelated: both indicators, and critical
C19_Witness ==
    /\ call.fn = "au_analyze"
    /\ call.au_count = 7
    /\ call.unrelated_count = 6
    /\ InList("EXCESSIVE_AU_ACCOUNTS", call.abuse_indicators)
    /\ InList("MOSTLY_UNRELATED_AU", call.abuse_indicators)
    /\ call.risk_level = "critical"

\* seven settled AU accounts, all related: critical by the indicator alone,
\* at probability 0.6
C19_WitnessByIndicator ==
    /\ call.fn = "au_analyze"
    /\ call.au_count = 7
    /\ call.unrelated_count = 0
    /\ call.abuse_probability = Dec(6, 10)
    /\ call.risk_level = "critical"

\* five AU accounts: critical by the probability alone; and each lower
\* level is taken
C19_WitnessByProbability ==
    /\ call.fn = "au_analyze"
    /\ call.au_count = 5
    /\ ~InList("EXCESSIVE_AU_ACCOUNTS", call.abuse_indicators)
    /\ call.abuse_probability >= Dec(8, 10)
    /\ call.risk_level = "critical"
C19_WitnessHigh == call.fn = "au_analyze" /\ call.risk_level = "high"
C19_WitnessMedium == call.fn = "au_analyze" /\ call.risk_level = "medium"
C19_WitnessLow == call.fn = "au_analyze" /\ call.risk_level = "low"
C19_WitnessMinimal ==
    call.fn = "au_analyze" /\ call.au_count > 0 /\ call.risk_level = "minimal"

BustOutPredicted == call.fn = "predict"

\* C20: for every 12-month credit sequence whose balances rise monotonically
\* from 1000 to 6500 and whose payments decline from 500 to 170, the
\* rule-based prediction has bust_out_probability > 0.5 and DECLINING_PAYMENTS
\* among its warning signals.
C20_RisingBalancesFallingPayments ==
    BustOutPredicted =>
        /\ call.prediction.bust_out_probability > Dec(5, 10)
        /\ InList("DECLINING_PAYMENTS", call.prediction.warning_signals)

\* C20, amended: when the payments decline by 30 a month from 500 to 170 and
\* the utilization rates rise by 0.06 a month from 0.30 to 0.96, the
\* prediction has bust_out_probability > 0.5 and DECLINING_PAYMENTS among its
\* warning signals, whatever the shape of the rising balances, the cash
\* advances, the months on books and the synthetic score.
C20_SteadyDeclineWithRisingUtilization ==
    (/\ BustOutPredicted
     /\ call.credit_sequence.monthly_payments = Seq12(500, -30)
     /\ call.credit_sequence.utilization_rates = Seq12(30, 6)) =>
        /\ call.prediction.bust_out_probability > Dec(5, 10)
        /\ InList("DECLINING_PAYMENTS", call.prediction.warning_signals)

\* the steady decline with rising utilization and nothing else: 0.2 + 0.15
\* + 0.25
C20_Witness ==
    /\ BustOutPredicted
    /\ call.credit_sequence.monthly_balances = Seq12(1000, 500)
    /\ call.credit_sequence.monthly_payments = Seq12(500, -30)
    /\ call.credit_sequence.utilization_rates = Seq12(30, 6)
    /\ call.credit_sequence.cash_advance_amounts = <<>>
    /\ call.synthetic_score = 0
    /\ call.prediction.bust_out_probability = Dec(60, 100)
    /\ InList("DECLINING_PAYMENTS", call.prediction.warning_signals)

\* the steady decline with no utilization and no cash advances reported:
\* DECLINING_PAYMENTS at probability 0.25
C20_WitnessLowProbability ==
    /\ BustOutPredicted
    /\ call.credit_sequence.monthly_payments = Seq12(500, -30)
    /\ call.credit_sequence.utilization_rates = <<>>
    /\ call.prediction.bust_out_probability = Dec(25, 100)
    /\ InList("DECLINING_PAYMENTS", call.prediction.warning_signals)

\* payments dropping to 170 in the second month: no DECLINING_PAYMENTS
C20_WitnessNotDeclining ==
    /\ BustOutPredicted
    /\ call.credit_sequence.monthly_payments = Step12(500, 170, 2)
    /\ ~InList("DECLINING_PAYMENTS", call.prediction.warning_signals)

CreditAnalyzed == call.fn = "credit_analyze"

\* the terms of the behavior score read off the inputs of the analysis: the
\* thin file terms, the file-age mismatch term, and the AU ratio
ThinFileTerms ==
      (IF call.num_tradelines < 3 THEN Dec(2, 10) ELSE 0)
    + (IF call.num_tradelines < 3 /\ call.claimed_age_days > 35 * 365
          THEN Dec(3, 10) ELSE 0)
FileAgeTerm ==
    IF ~call.file_age_months.none
       /\ call.file_age_months.val * 3650
              < Max(0, (call.claimed_age_days - 18 * 365) * 12) * 3
        THEN Dec(4, 10) ELSE 0
AuRatioOfCall ==
    IF call.num_tradelines > 0
        THEN Mul(One, call.au_accounts, call.num_tradelines) ELSE 0

\* C22: the credit behavior score is min(1.0, 0.2 [thin file] + 0.3 [thin
\* file and claimed age > 35] + 0.4 au_ratio + 0.4 [file-age mismatch] + 0.3
\* credit_velocity) for every AU ratio in [0, 1] (the credit velocity is 0).
C22_BehaviorScoreFormula ==
    CreditAnalyzed =>
        call.analysis.behavior_score
            = Min(One, ThinFileTerms + Mul(AuRatioOfCall, 4, 10) + FileAgeTerm)

\* C22, amended: the AU ratio contributes 0.4 au_ratio only when it is above
\* 0.5, and nothing at 0.5 or below.
C22_BehaviorScoreAuAboveHalf ==
    CreditAnalyzed =>
        call.analysis.behavior_score
            = Min(One, ThinFileTerms
                       + (IF AuRatioOfCall > Dec(5, 10)
                             THEN Mul(AuRatioOfCall, 4, 10) ELSE 0)
                       + FileAgeTerm)

\* three AU accounts among four tradelines on a young file of a 50 year old:
\* 0.4 * 0.75 + 0.4
C22_Witness ==
    /\ CreditAnalyzed
    /\ call.num_tradelines = 4
    /\ call.au_accounts = 3
    /\ call.file_age_months = Ok(12)
    /\ call.claimed_age_days = 50 * 365
    /\ call.analysis.behavior_score = Dec(70, 100)

\* two AU accounts among four tradelines, nothing else: the ratio 0.5 adds
\* nothing
C22_WitnessHalf ==
    /\ CreditAnalyzed
    /\ call.num_tradelines = 4
    /\ call.au_accounts = 2
    /\ call.file_age_months = OkNone
    /\ call.analysis.behavior_score = 0

\* a thin file of AU accounts alone, of a 50 year old with a new file: capped
C22_WitnessCapped ==
    /\ CreditAnalyzed
    /\ call.num_tradelines = 2
    /\ call.au_accounts = 2
    /\ call.file_age_months = Ok(0)
    /\ call.claimed_age_days = 50 * 365
    /\ call.analysis.behavior_score = One

\* under the default threshold of its type an element scores as
\* calculate_element_score has it
ElementScoreAtDefault ==
    (call.fn = "element_score_at" /\ call.threshold = threshold_of(call.element_type))
        => call.outcome = Ok(call.by_default)

\* the ratios of the detectors on a zero denominator, one by one: the AU to
\* tradeline ratio, the unrelated AU ratio, the recency ratio, the payment
\* ratio, and the count to threshold ratio
AuRatioGuarded ==
    (CreditAnalyzed /\ call.num_tradelines = 0) => call.analysis.au_to_primary_ratio = 0
UnrelatedRatioGuarded ==
    (call.fn = "au_analyze" /\ call.au_count = 0) =>
        (call.abuse_probability = 0 /\ call.abuse_indicators = <<>>)
RecencyRatioGuarded ==
    /\ (ElementScored /\ call.n1 = 0) => call.score1 = 0
    /\ (call.fn = "element_score_at" /\ call.velocity.unique_identities_180d = 0)
           => call.outcome = Ok(0)
PaymentRatioGuarded ==
    (call.fn = "min_payment_ratio" /\ MaxSeq(call.monthly_payments) = 0)
        => call.outcome = Ok(0)
ThresholdRatioGuarded ==
    (call.fn = "element_score_at" /\ call.threshold = 0) => call.outcome = Ok(0)

\* C23: no ratio of the detectors raises on a zero denominator, each yields
\* 0.0 instead: the AU to tradeline ratio with no tradelines, the unrelated
\* AU ratio with no AU accounts, the count to threshold ratio with a
\* configured threshold of 0, the recency ratio with no identities, and the
\* min/max payment ratio with all payments zero.
C23_ZeroDenominatorsYieldZero ==
    /\ AuRatioGuarded
    /\ UnrelatedRatioGuarded
    /\ ThresholdRatioGuarded
    /\ RecencyRatioGuarded
    /\ PaymentRatioGuarded

\* the four guarded ratios
C23_GuardedRatios ==
    /\ AuRatioGuarded
    /\ UnrelatedRatioGuarded
    /\ RecencyRatioGuarded
    /\ PaymentRatioGuarded

\* the SSN validation signals of the scoring endpoint, as the keys whose
\* value is truthy: with issues (is_valid False, is_itin True,
\* issuance_consistent False), and without
SsnIssueSignals == {"is_itin"}
SsnCleanSignals == {"is_valid", "area_valid", "group_valid", "issuance_consistent"}

\* C25: an analysis with SSN validation signals that report issues, in the
\* form the scoring endpoint builds them, has a synthetic SSN component
\* score above 0 and a final_risk_score strictly higher than the same
\* analysis without SSN issues.
C25_SsnIssuesRaiseRisk ==
    (IsResult /\ ~dirty /\ now = result.analyzed_at
     /\ result.input.ssn_signals = SsnIssueSignals) =>
        With(EnsembleDetector_analyze(
                 [result.input EXCEPT !.ssn_signals = SsnCleanSignals]),
             LAMBDA clean :
                /\ clean.kind = "result"
                /\ result.synthetic_score.component_scores.ssn > 0
                /\ result.final_risk_score > clean.final_risk_score)

\* what the analyses with SSN issues do return: no SSN component score, and
\* the final score of the same analysis without issues
SsnIssuesIgnored ==
    (IsResult /\ ~dirty /\ now = result.analyzed_at
     /\ result.input.ssn_signals = SsnIssueSignals) =>
        With(EnsembleDetector_analyze(
                 [result.input EXCEPT !.ssn_signals = SsnCleanSignals]),
             LAMBDA clean :
                /\ clean.kind = "result"
                /\ result.synthetic_score.component_scores.ssn = 0
                /\ result.final_risk_score = clean.final_risk_score)

\* a step of a scoring request: the only steps that leave the clock alone
\* and end with no collaborator change since the last analyze call
AnalyzeStep == dirty' = FALSE /\ now' = now

\* C26: a scoring request is free of side effects: EnsembleDetector.analyze
\* leaves the velocity store, the graph store and the detectors' fields
\* (their store client, bureau connector and graph client) unchanged, so
\* that requests interleaved with it read the state they would read when
\* run one after another.
C26_AnalyzeLeavesStateUnchanged ==
    [][AnalyzeStep =>
          /\ UNCHANGED <<redis, zIdent, zSsn, bureau, auGraph>>
          /\ UNCHANGED graphStoreVars]_vars

\* a request answered from a velocity store in use and a connected bureau,
\* both as they were before the request
C26_Witness ==
    /\ IsResult
    /\ ~dirty
    /\ redis = "up"
    /\ bureau = "up"
    /\ zIdent = HotIdent
    /\ zSsn = HotSsn
    /\ result.velocity_analysis.overall_velocity_score > 0

\* a run of run_cluster_detection has completed, write-back included, and
\* returned clusters
RunCompleted ==
    /\ ~writeBack.active
    /\ writeBack.runs > 0
    /\ clusters.ok /\ ~clusters.none
    /\ clusters.val # <<>>

FirstRunAssignsItsMembers ==
    (RunCompleted /\ writeBack.runs = 1) =>
        \A k \in 1..Len(clusters.val) :
            get_cluster_members(clusters.val[k].cluster_id)
                = Ok(ToSet(clusters.val[k].member_identities))

\* a step in which a request calls extract_features on the shared extractor,
\* the graph database being reachable
FeaturesStep ==
    /\ observed' # observed
    /\ observed'.kind = "features"
    /\ gdriver = "up"

\* the features of the step's identity report its links in the store as it
\* is at the call
ReportsStoreLinks ==
    LET X == observed'.identity_id
    IN  X \in DOMAIN graph_of_store.nodes =>
            /\ observed'.out.ok
            /\ observed'.out.val.degree >= 1
            /\ observed'.out.val.degree = Cardinality(neighbors(graph_of_store, X))
            /\ observed'.out.val.shared_ssn_count
                   = count_shared_elements(graph_of_store, X)["ssn"]

\* C28: extract_features reflects the graph store at the time of the call:
\* once add_identity has linked identity X to another identity through a
\* shared element, extract_features(X) reports the link (degree >= 1, the
\* shared-element count), even when the extractor served a request before.
C28_FeaturesReflectStoreAtCall ==
    [][FeaturesStep => ReportsStoreLinks]_vars

\* the same for an extractor that has not cached a graph yet
FirstExtractionReflectsStore ==
    [][(FeaturesStep /\ cached_graph.none) => ReportsStoreLinks]_vars

----------------------------------------------------------------------------
(* The alert manager of the websocket API (AlertSpec)                      *)

MaxSockets == 3
MaxBroadcasts == 2

\* websocket_endpoint up to its receive loop: AlertManager.connect accepts
\* the websocket and tracks it.  A set iterator of a broadcast in progress
\* finds the new entry ahead of its position or behind it.
ConnectSocket ==
    /\ Len(sockets) < MaxSockets
    /\ LET w == Len(sockets) + 1
       IN  /\ sockets' = Append(sockets, "open")
           /\ connections' = connections \cup {w}
           /\ \/ UNCHANGED sending
              \/ /\ sending.pc = "send"
                 /\ sending' = [sending EXCEPT !.todo = @ \cup {w}]
    /\ UNCHANGED caseVars
    /\ UNCHANGED <<scoringVars, graphStoreVars, replay, call>>

\* the client of an open websocket goes away: sends to it raise from now on
CloseSocket(w) ==
    /\ w \in DOMAIN sockets
    /\ sockets[w] = "open"
    /\ sockets' = [sockets EXCEPT ![w] = "closed"]
    /\ UNCHANGED <<connections, sending>>
    /\ UNCHANGED caseVars
    /\ UNCHANGED <<scoringVars, graphStoreVars, replay, call>>

\* websocket_endpoint's receive raises on the closed websocket and its
\* handler calls AlertManager.disconnect, which discards the websocket
DisconnectSocket(w) ==
    /\ w \in connections
    /\ sockets[w] = "closed"
    /\ connections' = connections \ {w}
    /\ sending' = IF sending.pc = "send"
                     THEN [sending EXCEPT !.todo = @ \ {w}]
                     ELSE sending
    /\ UNCHANGED sockets
    /\ UNCHANGED caseVars
    /\ UNCHANGED <<scoringVars, graphStoreVars, replay, call>>

\* AlertManager.broadcast up to its first await: it returns at once with
\* nothing tracked, else starts to iterate over _connections and is
\* suspended in the send to the first websocket
BroadcastStart ==
    /\ sending.pc # "send"
    /\ sending.runs < MaxBroadcasts
    /\ IF connections = {}
          THEN sending' = [NoSending EXCEPT !.pc = "returned",
                                            !.runs = sending.runs + 1]
          ELSE \E w \in connections :
                 sending' = [pc |-> "send", current |-> w,
                             todo |-> connections \ {w},
                             size |-> Cardinality(connections),
                             disconnected |-> {}, attempted |-> {w},
                             tracked |-> connections,
                             runs |-> sending.runs + 1]
    /\ UNCHANGED <<connections, sockets>>
    /\ UNCHANGED caseVars
    /\ UNCHANGED <<scoringVars, graphStoreVars, replay, call>>

\* the send in progress ends, a send to a closed websocket raising, and the
\* loop takes its next step: the set iterator raises RuntimeError when the
\* set changed size, which ends broadcast; at the end of the set broadcast
\* removes the websockets whose send raised and returns; else it is
\* suspended in the next send
BroadcastResume ==
    /\ sending.pc = "send"
    /\ LET failed == IF sockets[sending.current] = "closed"
                        THEN sending.disconnected \cup {sending.current}
                        ELSE sending.disconnected
       IN  IF Cardinality(connections) # sending.size
              THEN /\ sending' = [sending EXCEPT !.pc = "raised",
                                                 !.disconnected = failed]
                   /\ UNCHANGED connections
           ELSE IF sending.todo = {}
              THEN /\ sending' = [sending EXCEPT !.pc = "returned",
                                                 !.disconnected = failed]
                   /\ connections' = connections \ failed
           ELSE /\ \E w \in sending.todo :
                      sending' = [sending EXCEPT !.current = w,
                                                 !.todo = @ \ {w},
                                                 !.attempted = @ \cup {w},
                                                 !.disconnected = failed]
                /\ UNCHANGED connections
    /\ UNCHANGED sockets
    /\ UNCHANGED caseVars
    /\ UNCHANGED <<scoringVars, graphStoreVars, replay, call>>

AlertNext ==
    \/ ConnectSocket
    \/ \E w \in 1..MaxSockets : CloseSocket(w)
    \/ \E w \in 1..MaxSockets : DisconnectSocket(w)
    \/ BroadcastStart
    \/ BroadcastResume

AlertSpec == DetectorInit /\ [][AlertNext]_vars

BroadcastEnded == sending.pc \in {"returned", "raised"} /\ sending.tracked # {}

\* C29: broadcast completes without error and attempts delivery to every
\* connection tracked when it started, whatever connect and disconnect calls
\* run while it is suspended in a send; afterwards no connection whose send
\* failed is tracked.
C29_BroadcastCompletesAndDelivers ==
    BroadcastEnded =>
        /\ sending.pc = "returned"
        /\ sending.tracked \subseteq sending.attempted
        /\ connections \cap sending.disconnected = {}

\* a broadcast that returns leaves no websocket tracked whose send failed
ReturnedBroadcastCleansUp ==
    (BroadcastEnded /\ sending.pc = "returned") =>
        connections \cap sending.disconnected = {}

\* a broadcast during which the tracked set did not change attempts every
\* tracked connection
UndisturbedBroadcastDelivers ==
    (sending.pc = "returned" /\ sending.tracked # {}
        /\ connections \cup sending.disconnected = sending.tracked) =>
            sending.tracked \subseteq sending.attempted

----------------------------------------------------------------------------
(* The investigation cases (CaseSpec)                                      *)

MaxCases == 2

\* CaseStatus
CaseStatus ==
    {"open", "in_progress", "pending_review", "sar_filed",
     "closed_confirmed", "closed_false_positive"}

\* the statuses that record the outcome of a case
OutcomeStatuses == {"sar_filed", "closed_confirmed", "closed_false_positive"}

\* str.lower on the status strings of the requests
lower(status) ==
    IF status = "CLOSED_CONFIRMED" THEN "closed_confirmed" ELSE status

\* _status_to_enum: status_map.get(status.lower())
status_to_enum(status) ==
    IF lower(status) \in CaseStatus THEN Ok(lower(status)) ELSE OkNone

\* the status and assigned_to a PATCH request may carry; None and "" are
\* the falsy ones
RequestStatuses == CaseStatus \cup {None, "", "CLOSED_CONFIRMED", "resolved"}
RequestAnalysts == {None, "", "ana"}

\* CaseManager.create_case
create_case == [status |-> "open", assigned_to |-> OkNone, sar_reference |-> FALSE]

\* CaseManager.update_status on the cases cs
update_status(cs, case_id, status) ==
    IF case_id \notin DOMAIN cs THEN cs
    ELSE [cs EXCEPT ![case_id].status = status]

\* CaseManager.assign_case on the cases cs
assign_case(cs, case_id, analyst) ==
    IF case_id \notin DOMAIN cs THEN cs
    ELSE [cs EXCEPT ![case_id].assigned_to = Ok(analyst),
                    ![case_id].status = "in_progress"]

\* update_case: the status when it is given and known, then the assignee
\* when one is given
update_case(cs, case_id, status, assigned_to) ==
    LET status_enum == IF Truthy(status) THEN status_to_enum(status) ELSE OkNone
        with_status == IF status_enum.none THEN cs
                       ELSE update_status(cs, case_id, status_enum.val)
    IN  IF Truthy(assigned_to)
           THEN assign_case(with_status, case_id, assigned_to)
           ELSE with_status

\* what a route answers for a case: 404 without it, else its status
answer(op, cs, after, case_id, status, assigned_to) ==
    [op |-> op, case_id |-> case_id,
     found |-> case_id \in DOMAIN cs,
     status |-> status, assigned_to |-> assigned_to,
     before |-> IF case_id \in DOMAIN cs THEN cs[case_id].status ELSE None,
     after |-> IF case_id \in DOMAIN after THEN after[case_id].status ELSE None]

\* POST /cases
CreateCase ==
    /\ Len(cases) < MaxCases
    /\ cases' = Append(cases, create_case)
    /\ response' = answer("create_case", cases, cases', Len(cases) + 1, None, None)
    /\ UNCHANGED alertVars
    /\ UNCHANGED <<scoringVars, graphStoreVars, replay, call>>

\* PATCH /cases/{case_id}
UpdateCase(case_id, status, assigned_to) ==
    /\ cases' = update_case(cases, case_id, status, assigned_to)
    /\ response' = answer("update_case", cases, cases', case_id, status, assigned_to)
    /\ UNCHANGED alertVars
    /\ UNCHANGED <<scoringVars, graphStoreVars, replay, call>>

\* a caller of CaseManager.assign_case
AssignCase(case_id, analyst) ==
    /\ cases' = assign_case(cases, case_id, analyst)
    /\ response' = answer("assign_case", cases, cases', case_id, None, analyst)
    /\ UNCHANGED alertVars
    /\ UNCHANGED <<scoringVars, graphStoreVars, replay, call>>

\* POST /cases/{case_id}/sar
GenerateSar(case_id) ==
    /\ cases' = IF case_id \notin DOMAIN cases THEN cases
                ELSE update_status([cases EXCEPT ![case_id].sar_reference = TRUE],
                                   case_id, "sar_filed")
    /\ response' = answer("generate_sar", cases, cases', case_id, None, None)
    /\ UNCHANGED alertVars
    /\ UNCHANGED <<scoringVars, graphStoreVars, replay, call>>

CaseNext ==
    \/ CreateCase
    \/ \E c \in 1..MaxCases, s \in RequestStatuses, a \in RequestAnalysts :
           UpdateCase(c, s, a)
    \/ \E c \in 1..MaxCases, a \in RequestAnalysts \ {None} : AssignCase(c, a)
    \/ \E c \in 1..MaxCases : GenerateSar(c)

CaseSpec == DetectorInit /\ [][CaseNext]_vars

\* C30: assigning an analyst never changes the outcome of a case: a case in
\* status sar_filed, closed_confirmed or closed_false_positive keeps that
\* status when assign_case is called, and a PATCH that gives both a status
\* and an assignee leaves the case in the status asked for.
C30_AssignmentKeepsOutcome ==
    /\ (response.op = "assign_case" /\ response.found
            /\ response.before \in OutcomeStatuses) =>
           response.after = response.before
    /\ (response.op = "update_case" /\ response.found
            /\ Truthy(response.status) /\ ~status_to_enum(response.status).none
            /\ Truthy(response.assigned_to)) =>
           response.after = status_to_enum(response.status).val

\* a PATCH that gives a known status and no assignee leaves the case in the
\* status asked for, and one that gives an assignee leaves it in_progress
PatchStatusWithoutAssignee ==
    (response.op = "update_case" /\ response.found) =>
        IF Truthy(response.assigned_to)
           THEN response.after = "in_progress"
        ELSE IF Truthy(response.status) /\ ~status_to_enum(response.status).none
           THEN response.after = status_to_enum(response.status).val
        ELSE response.after = response.before

====
